---- MODULE Spec2Model ----
(***************************************************************************)
(* Model of capybara_fetcher: the fail-fast cache build of                 *)
(* orchestrator.run_cache_build, the cross-sectional percentile ranking it *)
(* applies to the assembled panel, and the equal-weight industry frame of  *)
(* industry.compute_industry_feature_frame.                                *)
(*                                                                         *)
(* Encodings.  A Ticker is a natural number standing for its zero-padded   *)
(* 6-digit code (the order of the codes is the order of the numbers).  A   *)
(* Date is a natural number (a normalized trading day).  A value that may  *)
(* be missing (NaN / pd.NA) is a sequence of length <= 1: NA is << >> and  *)
(* the value v is <<v>>.  A percentile is held in hundredths (0..10000).   *)
(* A return or an index level is an exact fraction <<num, den>>.           *)
(***************************************************************************)
EXTENDS Integers, Sequences, FiniteSets, TLC

VARIABLES
    pc,               \* position of run_cache_build / of its caller
    cfg,              \* CacheBuildConfig: max_workers, industry_output_path, industry_benchmark
    master_df,        \* provider.load_stock_master()
    tickers,          \* the resolved universe (after test_limit)
    benchmark_close,  \* the Mansfield benchmark series, Date -> Close
    future,           \* per submitted task: "unsubmitted","pending","running","ok","failed","cancelled"
    feed,             \* what provider.fetch_ohlcv returned for each task that ran
    frames,           \* list of feature frames in the order they were collected
    observed,         \* futures in the order as_completed handed them over
    cursor,           \* loop index of the submit / sequential / cancel loop
    full_df,          \* the assembled panel
    industry_df,      \* the concatenated industry frames
    files,            \* artifacts on disk
    error,            \* the exception run_cache_build raised, if any
    arg,              \* input of the pure function under check
    ret,              \* its result
    attempt,          \* KISAuth.fetch_api: the loop variable
    last_err,         \* KISAuth.fetch_api: the last transient error
    requests,         \* the responses self._session.get has delivered, in order
    sleeps,           \* the attempts after which fetch_api slept a backoff delay
    now,              \* time.monotonic(), in ticks
    _next_allowed_at, \* _RateLimiter._next_allowed_at
    _lock,            \* _RateLimiter._lock: the thread that holds it, 0 when free
    thread,           \* per thread in wait(): position, sleep_for, wake-up time
    returned_at,      \* the times at which calls of wait() returned, in order
    current_start,    \* FdrProvider._split_date_range_into_chunks: start of the next chunk
    chunks            \* FdrProvider._split_date_range_into_chunks: the chunks so far

providerVars == <<attempt, last_err, requests, sleeps, now, _next_allowed_at, _lock,
                  thread, returned_at, current_start, chunks>>

vars == <<pc, cfg, master_df, tickers, benchmark_close, future, feed, frames,
          observed, cursor, full_df, industry_df, files, error, arg, ret, providerVars>>

runVars == <<pc, cfg, master_df, tickers, benchmark_close, future, feed, frames,
             observed, cursor, full_df, industry_df, files, error>>

\* no call into the provider layer is under way
ProviderIdle ==
    /\ attempt = "idle" /\ last_err = "idle" /\ requests = "idle" /\ sleeps = "idle"
    /\ now = "idle" /\ _next_allowed_at = "idle" /\ _lock = "idle"
    /\ thread = "idle" /\ returned_at = "idle"
    /\ current_start = "idle" /\ chunks = "idle"

----------------------------------------------------------------------------
(* Bounds *)

RankTickers == 3
RankDates == 1
MaxRaw == 2

----------------------------------------------------------------------------
(* Generic helpers *)

NA == << >>
Some(v) == <<v>>
IsNA(x) == x = NA

Min2(a, b) == IF a < b THEN a ELSE b

\* the result slot of a function under check: not yet applied / its value
NotRun == [done |-> FALSE, val |-> << >>]
Returned(v) == [done |-> TRUE, val |-> v]

RECURSIVE SumSet(_, _)
SumSet(S, f) ==
    IF S = {} THEN 0
    ELSE LET x == CHOOSE y \in S : TRUE IN f[x] + SumSet(S \ {x}, f)

RECURSIVE Flatten(_)
Flatten(ss) == IF ss = << >> THEN << >> ELSE Head(ss) \o Flatten(Tail(ss))

RECURSIVE SetToSortedSeq(_)
SetToSortedSeq(S) ==
    IF S = {} THEN << >>
    ELSE LET m == CHOOSE x \in S : \A y \in S : x <= y
         IN <<m>> \o SetToSortedSeq(S \ {m})

\* the stable sort pandas uses for a multi-column sort_values: rows with equal
\* keys keep their relative order
StableSortByKey(s, key) ==
    LET n == Len(s)
        rows == s \o << >>
        k == key \o << >>
        pos == [i \in 1..n |-> 1 + Cardinality({j \in 1..n :
                        k[j] < k[i] \/ (k[j] = k[i] /\ j < i)})] \o << >>
    IN [p \in 1..n |-> rows[CHOOSE i \in 1..n : pos[i] = p]] \o << >>

\* numpy's rint: round a / b (a >= 0, b > 0) to the nearest integer, ties to even
RoundHalfEven(a, b) ==
    LET q == a \div b
        r == a % b
    IN IF 2 * r < b THEN q
       ELSE IF 2 * r > b THEN q + 1
       ELSE IF q % 2 = 0 THEN q ELSE q + 1

----------------------------------------------------------------------------
(* Cross-sectional percentile ranks, orchestrator.py 193-213 *)

\* average-method mask: rank only the rows of the Date group whose raw value is present
RankPopulation_alldates(df, d) == {j \in 1..Len(df) : ~IsNA(df[j].raw)}

RankPopulation(df, d) == {j \in 1..Len(df) : df[j].Date = d /\ ~IsNA(df[j].raw)}

\* Series.rank(method="average", pct=True) within one Date group: the rows are
\* ordered by value, numbered 1..n, tied rows share the mean of their numbers,
\* and the rank is divided by the number n of ranked rows.  The result is the
\* fraction <<num, den>>.
RankPctAverageCount(df, i, count) ==
    LET pop == RankPopulation(df, df[i].Date)
        val(j) == df[j].raw[1]
        ordinal == [j \in pop |->
            1 + Cardinality({k \in pop : val(k) < val(j) \/ (val(k) = val(j) /\ k < j)})]
        ties == {j \in pop : val(j) = val(i)}
    IN <<SumSet(ties, ordinal), Cardinality(ties) * count>>

RankPctAverage_min(df, i) ==
    LET pop == RankPopulation(df, df[i].Date)
        lower == {k \in pop : df[k].raw[1] < df[i].raw[1]}
    IN <<1 + Cardinality(lower), Cardinality(pop)>>

RankPctAverage_groupsize(df, i) ==
    RankPctAverageCount(df, i, Cardinality({j \in 1..Len(df) : df[j].Date = df[i].Date}))

RankPctAverage(df, i) ==
    RankPctAverageCount(df, i, Cardinality(RankPopulation(df, df[i].Date)))

\* .mul(100.0).round(2).astype("float32"): held as the number of hundredths.
\* Every multiple of 0.01 in [0,100] has its own nearest float32, so the
\* float32 value and the hundredth count determine one another.
PercentileOf(df, i) ==
    IF IsNA(df[i].raw) THEN NA
    ELSE LET p == RankPctAverage(df, i)
         IN Some(RoundHalfEven(10000 * p[1], p[2]))

\* the loop body for one MRS_<horizon> column: add the percentile column, then
\* drop the raw column.  The four horizons of MRS_WINDOWS run this same body on
\* disjoint columns; the model carries one of them.
MrsPercentileRanks(df) ==
    [i \in 1..Len(df) |->
        [Date |-> df[i].Date, Ticker |-> df[i].Ticker, Close |-> df[i].Close,
         idx |-> df[i].idx, MRS |-> PercentileOf(df, i)]]

----------------------------------------------------------------------------
(* Exact fractions <<num, den>>, den > 0, in lowest terms *)

Abs(x) == IF x < 0 THEN 0 - x ELSE x

RECURSIVE Gcd(_, _)
Gcd(a, b) == IF b = 0 THEN a ELSE Gcd(b, a % b)

Frac(n, d) ==
    LET g == Gcd(Abs(n), d)
    IN IF g = 0 THEN <<0, 1>> ELSE <<n \div g, d \div g>>

FracAdd(a, b) == Frac(a[1] * b[2] + b[1] * a[2], a[2] * b[2])
FracMul(a, b) == Frac(a[1] * b[1], a[2] * b[2])

RECURSIVE FracSum(_)
FracSum(s) == IF s = << >> THEN <<0, 1>> ELSE FracAdd(Head(s), FracSum(Tail(s)))

\* Series.mean() over the present values of s: NaN when there is none
FracMean(s) ==
    IF s = << >> THEN NA
    ELSE LET t == FracSum(s) IN Some(Frac(t[1], t[2] * Len(s)))

\* the subsequence of s at the indices in I, in order
RECURSIVE SubSeqAt(_, _)
SubSeqAt(s, I) ==
    IF I = {} THEN << >>
    ELSE LET m == CHOOSE x \in I : \A y \in I : x <= y
         IN <<s[m]>> \o SubSeqAt(s, I \ {m})

----------------------------------------------------------------------------
(* What a function of the package returns: an exception or a frame *)

Raised(msg) == [raised |-> TRUE, msg |-> msg, rows |-> << >>]
Frame(rows) == [raised |-> FALSE, msg |-> "", rows |-> rows]

----------------------------------------------------------------------------
(* indicators.py: the columns compute_features adds, computed in full *)

MA_WINDOWS == <<5, 10, 20, 60, 120, 200>>
NEW_HIGH_WINDOW_TRADING_DAYS == 252
MANSFIELD_RS_SMA_WINDOW == 200
MRS_WINDOWS == [MRS_1M |-> 21, MRS_3M |-> 63, MRS_6M |-> 126, MRS_12M |-> 250]

FracNeg(a) == <<0 - a[1], a[2]>>
FracDiv(a, b) == IF b[1] < 0 THEN Frac((0 - a[1]) * b[2], a[2] * (0 - b[1]))
                 ELSE Frac(a[1] * b[2], a[2] * b[1])

\* running totals of a sequence, by halves: RunningInt(xs, 1, n)[i] is the sum
\* of the first i integers of xs, RunningFrac the same for fractions
RECURSIVE RunningInt(_, _, _)
RunningInt(xs, lo, hi) ==
    IF lo > hi THEN << >>
    ELSE IF lo = hi THEN <<xs[lo]>>
    ELSE LET mid == (lo + hi) \div 2
             l == RunningInt(xs, lo, mid)
             r == RunningInt(xs, mid + 1, hi)
         IN l \o [k \in 1..Len(r) |-> l[Len(l)] + r[k]]

RECURSIVE RunningFrac(_, _, _)
RunningFrac(xs, lo, hi) ==
    IF lo > hi THEN << >>
    ELSE IF lo = hi THEN <<xs[lo]>>
    ELSE LET mid == (lo + hi) \div 2
             l == RunningFrac(xs, lo, mid)
             r == RunningFrac(xs, mid + 1, hi)
         IN l \o [k \in 1..Len(r) |-> FracAdd(l[Len(l)], r[k])]

\* Series.rolling(window, min_periods).mean(): at each position the mean of
\* the present values among the last `window` positions, present only when at
\* least min_periods of them are (never, on a series shorter than
\* min_periods).  xs holds NA or Some(fraction); the sums of a window are
\* differences of running totals.
rolling_mean(xs, window, min_periods) ==
    LET n == Len(xs)
        total == RunningFrac([i \in 1..n |-> IF IsNA(xs[i]) THEN <<0, 1>> ELSE xs[i][1]],
                             1, n)
        count == RunningInt([i \in 1..n |-> IF IsNA(xs[i]) THEN 0 ELSE 1], 1, n)
    IN IF n < min_periods THEN << >> \o [i \in 1..n |-> NA]
       ELSE << >> \o [i \in 1..n |->
          LET out == i - window
              s == IF out >= 1 THEN FracAdd(total[i], FracNeg(total[out])) ELSE total[i]
              nobs == IF out >= 1 THEN count[i] - count[out] ELSE count[i]
          IN IF nobs >= min_periods /\ nobs > 0 THEN Some(FracDiv(s, <<nobs, 1>>))
             ELSE NA]

\* Series.rolling(window, min_periods).max() at position i
rolling_max_at(xs, window, min_periods, i) ==
    LET lo == IF i - window + 1 < 1 THEN 1 ELSE i - window + 1
        present == {xs[j] : j \in lo..i}
    IN IF Cardinality(lo..i) >= min_periods
       THEN Some(CHOOSE m \in present : \A x \in present : x <= m)
       ELSE NA

\* benchmark_close_by_date as compute_features receives it: None, or a series
BenchNone == [given |-> FALSE, series |-> << >>]
BenchSeries(f) == [given |-> TRUE, series |-> f]

\* line 46: benchmark_close_by_date is not None and not .empty
HasBenchmark(b) == b.given /\ DOMAIN b.series # {}

\* df.sort_values("Date") (37)
SortByDate(df) == StableSortByKey(df, [i \in 1..Len(df) |-> df[i].Date])

\* close.rolling(window=w, min_periods=w).mean() (43)
SMA_partial(close, w) == rolling_mean(close, w, 1)

SMA(close, w) == rolling_mean(close, w, w)

\* rs_raw = close / bench, bench = Date mapped through the benchmark (52-54): a
\* date the benchmark does not carry gives a missing ratio
RsRaw(df, b) ==
    << >> \o [i \in 1..Len(df) |->
        IF df[i].Date \in DOMAIN b.series
        THEN Some(FracDiv(<<df[i].Close, 1>>, <<b.series[df[i].Date], 1>>))
        ELSE NA]

\* (rs_raw / rs_sma - 1.0) * 100.0 with rs_sma the full-window rolling mean (57-64)
MansfieldOf(rs_raw, window) ==
    LET rs_sma == rolling_mean(rs_raw, window, window)
    IN << >> \o [i \in 1..Len(rs_raw) |->
          IF IsNA(rs_sma[i]) \/ IsNA(rs_raw[i]) THEN NA
          ELSE Some(FracMul(FracAdd(FracDiv(rs_raw[i][1], rs_sma[i][1]), <<-1, 1>>),
                            <<100, 1>>))]

\* lines 46-68: the relative-strength columns, or the missing marker on every
\* row when there is no benchmark
AllMissing(df) == << >> \o [i \in 1..Len(df) |-> NA]

RelativeStrength_zero(df, b, window) ==
    IF HasBenchmark(b) THEN MansfieldOf(RsRaw(df, b), window)
    ELSE << >> \o [i \in 1..Len(df) |-> Some(<<0, 1>>)]

RelativeStrength(df, b, window) ==
    IF HasBenchmark(b) THEN MansfieldOf(RsRaw(df, b), window)
    ELSE AllMissing(df)

\* close.eq(roll_max).astype("boolean") (71-72): comparing with a missing
\* maximum gives False
NewHighFlags_open(close, window) ==
    << >> \o [i \in 1..Len(close) |->
        LET m == rolling_max_at(close, window, 1, i)
        IN ~IsNA(m) /\ close[i] = m[1]]

NewHighFlags(close, window) ==
    << >> \o [i \in 1..Len(close) |->
        LET m == rolling_max_at(close, window, window, i)
        IN ~IsNA(m) /\ close[i] = m[1]]

\* the names of the columns compute_features adds, as <<family, window>>
FeatureColumnNames ==
    {<<"SMA", MA_WINDOWS[n]>> : n \in 1..Len(MA_WINDOWS)}
      \cup {<<"MansfieldRS", MANSFIELD_RS_SMA_WINDOW>>}
      \cup {<<"MRS_raw", MRS_WINDOWS[h]>> : h \in DOMAIN MRS_WINDOWS}
      \cup {<<"IsNewHigh1Y", NEW_HIGH_WINDOW_TRADING_DAYS>>}

\* compute_features (19-74) with every column it adds.  A column is the
\* sequence of its values in the order of the returned rows; the float32 cast
\* is held as the exact fraction it rounds.
FeatureColumns(ohlcv_df, b) ==
    IF ohlcv_df = << >> THEN Raised("ohlcv_df is empty")
    ELSE LET df == SortByDate(ohlcv_df)
             close == << >> \o [i \in 1..Len(df) |-> df[i].Close]
             closeF == << >> \o [i \in 1..Len(df) |-> Some(<<df[i].Close, 1>>)]
         IN [raised |-> FALSE, msg |-> "", rows |-> df,
             names |-> FeatureColumnNames,
             SMA |-> [n \in 1..Len(MA_WINDOWS) |-> SMA(closeF, MA_WINDOWS[n])] \o << >>,
             MansfieldRS |-> RelativeStrength(df, b, MANSFIELD_RS_SMA_WINDOW),
             MRS_raw |-> [h \in DOMAIN MRS_WINDOWS |-> RelativeStrength(df, b, MRS_WINDOWS[h])],
             IsNewHigh1Y |-> NewHighFlags(close, NEW_HIGH_WINDOW_TRADING_DAYS)]

\* A benchmark series as a caller may hand it over: its entries in the order
\* of the series, the index possibly holding a date more than once.
BenchEntry(d, v) == [Date |-> d, Close |-> v]

\* benchmark_close_by_date[~index.duplicated(keep="last")] (47-50): for each
\* date of the index the entry that comes last in the series; a series
\* whose index is unique is left as it is
without_duplicated_keepfirst(entries) ==
    [d \in {entries[i].Date : i \in 1..Len(entries)} |->
        entries[CHOOSE i \in 1..Len(entries) :
                   /\ entries[i].Date = d
                   /\ \A j \in 1..(i - 1) : entries[j].Date # d].Close]

without_duplicated(entries) ==
    [d \in {entries[i].Date : i \in 1..Len(entries)} |->
        entries[CHOOSE i \in 1..Len(entries) :
                   /\ entries[i].Date = d
                   /\ \A j \in (i + 1)..Len(entries) : entries[j].Date # d].Close]

\* compute_features on a benchmark given by its entries: lines 47-50, then
\* the mapping of line 52 through the series, whose index is now unique
FeatureColumnsOfEntries(ohlcv_df, entries) ==
    FeatureColumns(ohlcv_df, BenchSeries(without_duplicated(entries)))

----------------------------------------------------------------------------
(* industry.py *)

INDUSTRY_LEVEL_L == "L"
INDUSTRY_LEVEL_LM == "LM"
INDUSTRY_LEVEL_LMS == "LMS"
INDUSTRY_LEVELS == <<INDUSTRY_LEVEL_L, INDUSTRY_LEVEL_LM, INDUSTRY_LEVEL_LMS>>

\* Python None, and the float NaN a left merge leaves for an unmatched row
PyNone == "<None>"
PyNaN == "<NaN>"

\* str(v).strip() on the field values the model draws
StrStrip(v) ==
    IF v = PyNaN THEN "nan"
    ELSE IF v = " " THEN ""
    ELSE v

StrLower(s) ==
    IF s = "None" THEN "none"
    ELSE IF s = "NaN" THEN "nan"
    ELSE s

_normalize_industry_value(v) ==
    LET s == IF v = PyNone THEN "" ELSE StrStrip(v)
    IN IF StrLower(s) \in {"nan", "none"} THEN "" ELSE s

OrUnknown(x) == IF x = "" THEN "Unknown" ELSE x

\* the key strings "L", "L||M", "L||M||S" are held as the tuple of their parts
_industry_key_large(large) == <<OrUnknown(large)>>

_industry_key_large_mid(large, mid) == <<OrUnknown(large), OrUnknown(mid)>>

_industry_key_large_mid_small(large, mid, small) ==
    <<OrUnknown(large), OrUnknown(mid), OrUnknown(small)>>

\* Python's string order on the labels the model produces
StrOrd(x) ==
    CASE x = "" -> 0
      [] x = "A" -> 1
      [] x = "B" -> 2
      [] x = "M" -> 3
      [] x = "S" -> 4
      [] x = "Unknown" -> 5
      [] OTHER -> 6

KeyOrd(k) ==
    LET c(n) == IF n <= Len(k) THEN StrOrd(k[n]) + 1 ELSE 0
    IN (c(1) * 8 + c(2)) * 8 + c(3)

\* one more than the largest Date of the frame: the radix of a (x, Date) sort key
DateRadix(df) ==
    1 + (CHOOSE m \in {0} \cup {df[i].Date : i \in 1..Len(df)} :
            \A i \in 1..Len(df) : df[i].Date <= m)

\* df[["Date","Ticker","Close"]] ... sort_values(["Ticker","Date"])   (79-83).
\* The panel has no missing Date, Ticker or Close, so dropna keeps every row.
PanelByTickerDate(feature_df) ==
    LET radix == DateRadix(feature_df)
    IN StableSortByKey(
        [i \in 1..Len(feature_df) |-> [Date |-> feature_df[i].Date,
                                        Ticker |-> feature_df[i].Ticker,
                                        Close |-> feature_df[i].Close]],
        [i \in 1..Len(feature_df) |-> feature_df[i].Ticker * radix + feature_df[i].Date])

\* m = m[m["Market"] != "ETF"], then the three fields normalized   (90-97)
MasterWithoutEtf(master) ==
    LET m == SubSeqAt(master, {i \in 1..Len(master) : master[i].Market # "ETF"})
    IN << >> \o [i \in 1..Len(m) |->
          [Code |-> m[i].Code,
           IndustryLarge |-> _normalize_industry_value(m[i].IndustryLarge),
           IndustryMid |-> _normalize_industry_value(m[i].IndustryMid),
           IndustrySmall |-> _normalize_industry_value(m[i].IndustrySmall)]]

MergeRow_inner(r, m) ==
    LET hits == SubSeqAt(m, {j \in 1..Len(m) : m[j].Code = r.Ticker /\ m[j].IndustryLarge # ""})
    IN [j \in 1..Len(hits) |->
          [Date |-> r.Date, Ticker |-> r.Ticker, Close |-> r.Close,
           IndustryLarge |-> hits[j].IndustryLarge,
           IndustryMid |-> hits[j].IndustryMid,
           IndustrySmall |-> hits[j].IndustrySmall]]

\* one left row of df.merge(m, left_on="Ticker", right_on="Code", how="left"):
\* one output row per matching master row, in master order; NaN fields when
\* nothing matches
MergeRow(r, m) ==
    LET hits == SubSeqAt(m, {j \in 1..Len(m) : m[j].Code = r.Ticker})
    IN IF hits = << >>
       THEN << [Date |-> r.Date, Ticker |-> r.Ticker, Close |-> r.Close,
                IndustryLarge |-> PyNaN, IndustryMid |-> PyNaN, IndustrySmall |-> PyNaN] >>
       ELSE [j \in 1..Len(hits) |->
               [Date |-> r.Date, Ticker |-> r.Ticker, Close |-> r.Close,
                IndustryLarge |-> hits[j].IndustryLarge,
                IndustryMid |-> hits[j].IndustryMid,
                IndustrySmall |-> hits[j].IndustrySmall]]

LeftMerge(df, m) == Flatten(<< >> \o [i \in 1..Len(df) |-> MergeRow(df[i], m)])

\* lines 106-130: normalize the joined fields, build IndustryKey and the labels
WithIndustryKey(df, level) ==
    << >> \o [i \in 1..Len(df) |->
        LET large == _normalize_industry_value(df[i].IndustryLarge)
            mid == _normalize_industry_value(df[i].IndustryMid)
            small == _normalize_industry_value(df[i].IndustrySmall)
        IN [Date |-> df[i].Date, Ticker |-> df[i].Ticker, Close |-> df[i].Close,
            IndustryKey |->
                IF level = INDUSTRY_LEVEL_L THEN _industry_key_large(large)
                ELSE IF level = INDUSTRY_LEVEL_LM THEN _industry_key_large_mid(large, mid)
                ELSE _industry_key_large_mid_small(large, mid, small),
            IndustryLargeOut |-> OrUnknown(large),
            IndustryMidOut |-> IF level = INDUSTRY_LEVEL_L THEN "" ELSE OrUnknown(mid),
            IndustrySmallOut |-> IF level = INDUSTRY_LEVEL_LMS THEN OrUnknown(small) ELSE ""]]

\* df.groupby("Ticker", sort=False)["Close"].pct_change(): against the previous
\* row of the same Ticker in frame order; NaN on the Ticker's first row   (132)
PctChange(df) ==
    << >> \o [i \in 1..Len(df) |->
        LET before == {j \in 1..(i - 1) : df[j].Ticker = df[i].Ticker}
        IN IF before = {} THEN NA
           ELSE LET p == CHOOSE j \in before : \A k \in before : k <= j
                IN Some(Frac(df[i].Close - df[p].Close, df[p].Close))]

\* the (IndustryKey, Date) groups with their mean and count of present returns (134-138)
GroupKeys(df) == {<<df[i].IndustryKey, df[i].Date>> : i \in 1..Len(df)}

GroupReturns(df, rets, k, d) ==
    LET rows == {i \in 1..Len(df) : df[i].IndustryKey = k /\ df[i].Date = d /\ ~IsNA(rets[i])}
        picked == SubSeqAt(rets, rows)
    IN [i \in 1..Len(picked) |-> picked[i][1]]

\* keys = sorted(g["IndustryKey"].unique())   (140)
SortedKeys(df) ==
    LET ks == {df[i].IndustryKey : i \in 1..Len(df)}
        ords == SetToSortedSeq({KeyOrd(k) : k \in ks})
    IN [n \in 1..Len(ords) |-> CHOOSE k \in ks : KeyOrd(k) = ords[n]]

\* reindex onto keys x global_dates with the fills of lines 144-149
ReindexedCell_nofill(df, rets, k, d) ==
    IF <<k, d>> \in GroupKeys(df)
    THEN LET rs == GroupReturns(df, rets, k, d)
             m == FracMean(rs)
         IN << [IndustryReturn |-> IF IsNA(m) THEN <<0, 1>> ELSE m[1],
                ConstituentCount |-> Len(rs)] >>
    ELSE << >>

ReindexedCell(df, rets, k, d) ==
    IF <<k, d>> \in GroupKeys(df)
    THEN LET rs == GroupReturns(df, rets, k, d)
             m == FracMean(rs)
         IN << [IndustryReturn |-> IF IsNA(m) THEN <<0, 1>> ELSE m[1],
                ConstituentCount |-> Len(rs)] >>
    ELSE << [IndustryReturn |-> <<0, 1>>, ConstituentCount |-> 0] >>

\* (1.0 + IndustryReturn).groupby(level=0).cumprod() * 100.0 along the grid  (152)
RECURSIVE CumProd100(_, _)
CumProd100(rs, n) ==
    IF n = 0 THEN <<100, 1>>
    ELSE FracMul(CumProd100(rs, n - 1), FracAdd(<<1, 1>>, rs[n]))

\* the rows of one key over the grid, in grid order
KeyRows(df, rets, level, k, global_dates) ==
    LET cells == Flatten(<< >> \o [n \in 1..Len(global_dates) |->
                    LET c == ReindexedCell(df, rets, k, global_dates[n])
                    IN << >> \o [x \in 1..Len(c) |-> [Date |-> global_dates[n], cell |-> c[x]]]])
        first == CHOOSE i \in 1..Len(df) :
                    /\ df[i].IndustryKey = k
                    /\ \A j \in 1..(i - 1) : df[j].IndustryKey # k
        closes == << >> \o [n \in 1..Len(cells) |->
                    CumProd100([x \in 1..Len(cells) |-> cells[x].cell.IndustryReturn], n)]
    IN << >> \o [n \in 1..Len(cells) |->
          [Date |-> cells[n].Date,
           Level |-> level,
           IndustryLarge |-> df[first].IndustryLargeOut,
           IndustryMid |-> df[first].IndustryMidOut,
           IndustrySmall |-> df[first].IndustrySmallOut,
           IndustryKey |-> k,
           IndustryClose |-> closes[n],
           IndustryReturn |-> cells[n].cell.IndustryReturn,
           ConstituentCount |-> cells[n].cell.ConstituentCount]]

\* compute_universe_equal_weight_benchmark_close_by_date (33-55): sort by
\* (Ticker, Date), the per-Ticker return, its mean by Date, reindexed onto the
\* grid with 0 for a date without a return, compounded from 100
UniverseReturns(feature_df, global_dates) ==
    LET df == PanelByTickerDate(feature_df)
        rets == PctChange(df)
    IN << >> \o [n \in 1..Len(global_dates) |->
          LET at == {i \in 1..Len(df) : df[i].Date = global_dates[n] /\ ~IsNA(rets[i])}
              picked == SubSeqAt(rets, at)
              m == FracMean([i \in 1..Len(picked) |-> picked[i][1]])
          IN IF IsNA(m) THEN <<0, 1>> ELSE m[1]]

compute_universe_equal_weight_benchmark_close_by_date(feature_df, global_dates) ==
    LET u == UniverseReturns(feature_df, global_dates)
    IN [d \in {global_dates[n] : n \in 1..Len(global_dates)} |->
          CumProd100(u, CHOOSE n \in 1..Len(global_dates) : global_dates[n] = d)]

\* lines 166-185 for the rows of one IndustryKey in date order: rs_raw =
\* IndustryClose / benchmark of the Date, and for each window the Mansfield
\* value against the full-window rolling mean of rs_raw within the key; the
\* missing marker in every column when there is no benchmark.  b.series maps a
\* Date to a fraction.
IndustryRsRaw(rows, b) ==
    << >> \o [i \in 1..Len(rows) |->
        IF rows[i].Date \in DOMAIN b.series
        THEN Some(FracDiv(rows[i].IndustryClose, b.series[rows[i].Date]))
        ELSE NA]

IndustryStrength(rs_raw, b, window) ==
    IF HasBenchmark(b) THEN MansfieldOf(rs_raw, window)
    ELSE AllMissing(rs_raw)

WithIndustryStrength(rows, b) ==
    LET rs_raw == IF HasBenchmark(b) THEN IndustryRsRaw(rows, b) ELSE AllMissing(rows)
        mansfield == IndustryStrength(rs_raw, b, MANSFIELD_RS_SMA_WINDOW)
        raw == [MRS_1M |-> IndustryStrength(rs_raw, b, MRS_WINDOWS["MRS_1M"]),
                MRS_3M |-> IndustryStrength(rs_raw, b, MRS_WINDOWS["MRS_3M"]),
                MRS_6M |-> IndustryStrength(rs_raw, b, MRS_WINDOWS["MRS_6M"]),
                MRS_12M |-> IndustryStrength(rs_raw, b, MRS_WINDOWS["MRS_12M"])]
    IN << >> \o [i \in 1..Len(rows) |->
          [Date |-> rows[i].Date,
           Level |-> rows[i].Level,
           IndustryLarge |-> rows[i].IndustryLarge,
           IndustryMid |-> rows[i].IndustryMid,
           IndustrySmall |-> rows[i].IndustrySmall,
           IndustryKey |-> rows[i].IndustryKey,
           IndustryClose |-> rows[i].IndustryClose,
           IndustryReturn |-> rows[i].IndustryReturn,
           ConstituentCount |-> rows[i].ConstituentCount,
           MansfieldRS |-> mansfield[i],
           MRS_1M_raw |-> raw["MRS_1M"][i],
           MRS_3M_raw |-> raw["MRS_3M"][i],
           MRS_6M_raw |-> raw["MRS_6M"][i],
           MRS_12M_raw |-> raw["MRS_12M"][i]]]

\* compute_industry_feature_frame (58-206).  IndustryReturn, IndustryClose and
\* the strength columns are exact where the code stores float32.
compute_industry_feature_frame(feature_df, master, benchmark_close_by_date, level, global_dates) ==
    IF feature_df = << >> THEN Raised("feature_df is empty")
    ELSE IF master = << >> THEN Raised("master_df is empty")
    ELSE IF level \notin {INDUSTRY_LEVELS[n] : n \in 1..Len(INDUSTRY_LEVELS)}
         THEN Raised("invalid industry level")
    ELSE
      LET df == WithIndustryKey(
                   LeftMerge(PanelByTickerDate(feature_df), MasterWithoutEtf(master)),
                   level)
          rets == PctChange(df)
          keys == SortedKeys(df)
          out == Flatten(<< >> \o [n \in 1..Len(keys) |->
                            WithIndustryStrength(
                                KeyRows(df, rets, level, keys[n], global_dates),
                                benchmark_close_by_date)])
      IN IF keys = << >> THEN Raised("no industry keys")
         ELSE LET radix == DateRadix(out)
              IN Frame(StableSortByKey(out,
                 [i \in 1..Len(out) |->
                    ((StrOrd(out[i].IndustryLarge) * 8 + StrOrd(out[i].IndustryMid)) * 8
                       + StrOrd(out[i].IndustrySmall)) * radix + out[i].Date]))

\* global_dates = ...dt.normalize().dropna().sort_values().unique()  (orchestrator 229-230)
GlobalDates(full) == SetToSortedSeq({full[i].Date : i \in 1..Len(full)})

----------------------------------------------------------------------------
(* standardize.py and the per-instrument task of orchestrator.py *)

\* df.drop_duplicates(subset=["Date"], keep="last") (80)
drop_duplicates_keepall(sorted) == sorted

drop_duplicates(sorted) ==
    SubSeqAt(sorted, {i \in 1..Len(sorted) :
                         \A j \in (i + 1)..Len(sorted) : sorted[j].Date # sorted[i].Date})

\* standardize_ohlcv (17-89): raise on an empty frame, drop rows without a
\* Close, sort by Date, keep the last row of each Date, raise when nothing is
\* left.  A raw record is [Date, Close, mrs] with Close possibly missing.
\* (sort_values("Date") on the short frames drawn here leaves records of the
\* same Date in the order they were handed over.)
standardize_ohlcv(raw_df, ticker) ==
    IF raw_df = << >> THEN Raised("raw_df is empty")
    ELSE
      LET valued == SubSeqAt(raw_df, {i \in 1..Len(raw_df) : ~IsNA(raw_df[i].Close)})
          sorted == StableSortByKey(valued, [i \in 1..Len(valued) |-> valued[i].Date])
          kept == drop_duplicates(sorted)
      IN IF kept = << >> THEN Raised("No valid rows after standardization")
         ELSE Frame(<< >> \o [i \in 1..Len(kept) |->
                  [Date |-> kept[i].Date, Close |-> kept[i].Close[1],
                   Ticker |-> ticker, mrs |-> kept[i].mrs]])

\* compute_features (19-74) as far as the panel columns carried here go.  The
\* MRS_<horizon>_raw value of a row is missing when the benchmark has no entry
\* for the row's Date (52-54, 64); otherwise it is the value the rolling-window
\* arithmetic yields, which the raw record carries in its field mrs (missing
\* while the window is not full).
compute_features(ohlcv_df, benchmark_close_by_date) ==
    IF ohlcv_df = << >> THEN Raised("ohlcv_df is empty")
    ELSE Frame(<< >> \o [i \in 1..Len(ohlcv_df) |->
            [Date |-> ohlcv_df[i].Date, Ticker |-> ohlcv_df[i].Ticker,
             Close |-> ohlcv_df[i].Close,
             raw |-> IF ohlcv_df[i].Date \in DOMAIN benchmark_close_by_date
                     THEN ohlcv_df[i].mrs ELSE NA]])

\* The series the caller handed to compute_features, after the call.  Lines
\* 46-53 read it; the removal of repeated dates (49-50) binds the result to the
\* function's own name and leaves the caller's series as it was.
caller_series_after_inplace(benchmark) ==
    [d \in {x \in DOMAIN benchmark : \E y \in DOMAIN benchmark : y > x} |-> benchmark[d]]

caller_series_after(benchmark) == benchmark

\* fetch_one (142-151) on what provider.fetch_ohlcv answered
fetch_one(ticker, answer, benchmark) ==
    IF answer.raises THEN Raised("fetch_ohlcv failed")
    ELSE LET std == standardize_ohlcv(answer.rows, ticker)
         IN IF std.raised THEN std ELSE compute_features(std.rows, benchmark)

----------------------------------------------------------------------------
(* providers/korea_investment_auth.py: KISAuth.fetch_api *)

MaxRetries == 2

\* what self._session.get delivers: a response with its status code, the
\* rt_cd and msg_cd of its JSON body (PyNone when the body is no JSON or
\* lacks the field) and whether msg1 or the text carries the per-second
\* limit phrase; or a requests.RequestException
Response(status, rt_cd, msg_cd, phrase) ==
    [raises |-> FALSE, status_code |-> status, rt_cd |-> rt_cd, msg_cd |-> msg_cd,
     phrase |-> phrase]
RequestException == [raises |-> TRUE, status_code |-> 0, rt_cd |-> PyNone,
                     msg_cd |-> PyNone, phrase |-> FALSE]

\* the responses of the tests, and the same bodies under the other status
Responses ==
    { Response(200, "0", PyNone, FALSE),
      Response(200, "1", "EGW00201", TRUE),
      Response(500, "1", "EGW00201", TRUE),
      Response(500, PyNone, PyNone, TRUE),
      Response(200, "1", "E_OTHER", FALSE),
      Response(500, "1", "E_OTHER", FALSE),
      Response(200, PyNone, PyNone, FALSE),
      Response(500, "0", PyNone, FALSE) }

\* _is_kis_rate_limit_error (53-61)
_is_kis_rate_limit_error_any(res) == res.msg_cd = "EGW00201" \/ res.phrase \/ res.status_code # 200

_is_kis_rate_limit_error(res) == res.msg_cd = "EGW00201" \/ res.phrase

\* res.status_code == 200 and data.get("rt_cd") == "0"   (163-165)
IsSuccess(res) == ~res.raises /\ res.status_code = 200 /\ res.rt_cd = "0"

\* if attempt >= self._max_retries: break   (155, 168, 181)
is_last_attempt_never(a, max_retries) == FALSE

is_last_attempt(a, max_retries) == a >= max_retries

\* what fetch_api hands to its caller
ApiReturned(data) == [raised |-> FALSE, exc |-> "", msg |-> "", data |-> <<data>>]
ApiRaised(exc, msg) == [raised |-> TRUE, exc |-> exc, msg |-> msg, data |-> << >>]

\* self.authenticate() through get_headers (146, 101-128): the cached token
\* is valid or a new one is granted; or the token request is refused; or the
\* token request fails in transport
AuthOutcomes == {"token", "refused", "transport"}

----------------------------------------------------------------------------
(* providers/fdr_provider.py: FdrProvider._split_date_range_into_chunks *)

MaxYears == 2

\* Dates are <<year, month, day>> of the Gregorian calendar; a timestamp is
\* the number of the day counted from the first day of FirstYear.
FirstYear == 2019
Years == FirstYear..(FirstYear + 12)

IsLeap(y) == (y % 4 = 0 /\ y % 100 # 0) \/ y % 400 = 0

DaysInMonth(y, m) ==
    IF m = 2 THEN (IF IsLeap(y) THEN 29 ELSE 28)
    ELSE IF m \in {4, 6, 9, 11} THEN 30 ELSE 31

DaysInYear(y) == IF IsLeap(y) THEN 366 ELSE 365

DaysBeforeYear(y) == SumSet(FirstYear..(y - 1), [x \in FirstYear..(y - 1) |-> DaysInYear(x)])

DaysBeforeMonth(y, m) == SumSet(1..(m - 1), [k \in 1..(m - 1) |-> DaysInMonth(y, k)])

\* pd.to_datetime("YYYY-MM-DD")   (76-77)
to_datetime(date) == DaysBeforeYear(date[1]) + DaysBeforeMonth(date[1], date[2]) + date[3]

\* Timestamp.strftime("%Y-%m-%d")   (87-88)
strftime(ts) ==
    LET y == CHOOSE x \in Years : DaysBeforeYear(x) < ts /\ ts <= DaysBeforeYear(x + 1)
        inYear == ts - DaysBeforeYear(y)
        m == CHOOSE k \in 1..12 :
                DaysBeforeMonth(y, k) < inYear /\ inYear <= DaysBeforeMonth(y, k) + DaysInMonth(y, k)
    IN <<y, m, inYear - DaysBeforeMonth(y, m)>>

\* ts + relativedelta(years=n): the same month and day n years later, the
\* last day of the month when that day does not exist   (84)
relativedelta_years(ts, n) ==
    LET date == strftime(ts)
    IN to_datetime(<<date[1] + n, date[2], Min2(date[3], DaysInMonth(date[1] + n, date[2]))>>)

\* while current_start < end   (82)
loop_continues(cs, end) == cs < end

\* chunk_end = min(current_start + relativedelta(years=max_years), end)   (84)
chunk_end_of(cs, end, max_years) == Min2(relativedelta_years(cs, max_years), end)

----------------------------------------------------------------------------
(* orchestrator.py: run_cache_build and the caller that catches its failure *)

MaxUniverse == 3
MaxWorkers == 3

MANSFIELD_BENCHMARK_TICKER == 69500

STAGE_FETCH == "fetch/standardize/feature"

INDUSTRY_BENCHMARK_UNIVERSE == "universe"
INDUSTRY_BENCHMARK_069500 == "069500"

NoError == [kind |-> "none", stage |-> "", ticker |-> 0, message |-> ""]
Exc(kind, message) == [kind |-> kind, stage |-> "", ticker |-> 0, message |-> message]

\* TickerProcessingError (30-35)
TickerProcessingError(ticker, stage, cause) ==
    [kind |-> "TickerProcessingError", stage |-> stage, ticker |-> ticker, message |-> cause]

\* build_failure_meta (60-94): the fields the failure record is read for
build_failure_meta_noticker(stage, err, ticker) ==
    [run_status |-> "failed", stage |-> stage, ticker |-> 0,
     type |-> err.kind, message |-> err.message]

build_failure_meta(stage, err, ticker) ==
    [run_status |-> "failed", stage |-> stage, ticker |-> ticker,
     type |-> err.kind, message |-> err.message]

NoMeta == [run_status |-> "none", stage |-> "", ticker |-> 0, type |-> "", message |-> ""]
SuccessMeta == [run_status |-> "success", stage |-> "", ticker |-> 0, type |-> "", message |-> ""]

NoFiles == [panel |-> FALSE, industry |-> FALSE, industry_meta |-> FALSE, meta |-> NoMeta]

\* what the provider may answer -------------------------------------------

RawRec(d, c, m) == [Date |-> d, Close |-> c, mrs |-> m]
Answer(rows) == [raises |-> FALSE, rows |-> rows]
FetchFails == [raises |-> TRUE, rows |-> << >>]

\* fetch_ohlcv(ticker): an error, a frame with no usable Close, or two records
\* handed over newest first; the first code may also answer with two records
\* of the same date
FeedCatalog(t) ==
    { FetchFails,
      Answer(<< RawRec(2, Some(2), Some(t)), RawRec(1, Some(1), NA) >>) }
    \cup (IF t = 1 THEN { Answer(<< RawRec(1, NA, NA) >>),
                          Answer(<< RawRec(2, Some(1), NA), RawRec(2, Some(2), Some(1)) >>) }
          ELSE { })

\* fetch_ohlcv(MANSFIELD_BENCHMARK_TICKER)
BenchmarkCatalog ==
    { FetchFails,
      Answer(<< >>),
      Answer(<< RawRec(1, Some(1), NA) >>),
      Answer(<< RawRec(2, Some(2), NA), RawRec(1, Some(1), NA) >>) }

\* list_tickers(): 6-digit codes without repetition, in the provider's order
UniverseLists ==
    { << >>, [i \in 1..MaxUniverse |-> (i % MaxUniverse) + 1] }

MasterEntry(c, k) ==
    [Code |-> c, Market |-> k[1], IndustryLarge |-> k[2], IndustryMid |-> k[3],
     IndustrySmall |-> k[4]]

\* load_stock_master(): an empty table, or one row per code
MasterCatalog ==
    { << >>,
      << MasterEntry(1, <<"KOSPI", "A", "M", "S">>),
         MasterEntry(2, <<"KOSPI", PyNone, "M", "S">>),
         MasterEntry(3, <<"ETF", PyNone, PyNone, PyNone>>) >> }

\* CacheBuildConfig: industry_output_path given or not, industry_benchmark,
\* industry_meta_output_path given or not
IndustrySettings ==
    { <<FALSE, INDUSTRY_BENCHMARK_UNIVERSE, FALSE>>,
      <<TRUE, INDUSTRY_BENCHMARK_UNIVERSE, TRUE>>,
      <<TRUE, INDUSTRY_BENCHMARK_UNIVERSE, FALSE>>,
      <<TRUE, INDUSTRY_BENCHMARK_069500, TRUE>>,
      <<TRUE, "kospi", TRUE>> }

Unread == [raises |-> FALSE, rows |-> << >>, read |-> FALSE]
ReadAs(a) == [raises |-> a.raises, rows |-> a.rows, read |-> TRUE]

N == Len(tickers)
ResultOf(i) == fetch_one(tickers[i], feed[i], benchmark_close)
TaskFailed(i) == feed[i].read /\ ResultOf(i).raised

\* steps 1 and 2 -----------------------------------------------------------

Init ==
    /\ pc = "start"
    /\ \E w \in 1..MaxWorkers, ind \in IndustrySettings :
          cfg = [max_workers |-> w, industry_output_path |-> ind[1],
                 industry_benchmark |-> ind[2],
                 industry_meta_output_path |-> ind[3]]
    /\ master_df = << >>
    /\ tickers = << >>
    /\ benchmark_close = << >>
    /\ future = << >>
    /\ feed = << >>
    /\ frames = << >>
    /\ observed = << >>
    /\ cursor = 0
    /\ full_df = << >>
    /\ industry_df = << >>
    /\ files = NoFiles
    /\ error = NoError
    /\ arg = "idle"
    /\ ret = NotRun
    /\ ProviderIdle

Raise(e) ==
    /\ error' = e
    /\ pc' = "raised"

\* 107-118: master, universe, test_limit, the empty-universe check
LoadUniverse ==
    /\ pc = "start"
    /\ \/ /\ Raise(Exc("ProviderError", "load_stock_master / list_tickers failed"))
          /\ UNCHANGED <<master_df, tickers>>
       \/ \E m \in MasterCatalog, listed \in UniverseLists, test_limit \in 0..MaxUniverse :
             LET resolved == IF test_limit > 0
                             THEN SubSeq(listed, 1, Min2(test_limit, Len(listed)))
                             ELSE listed
             IN IF resolved = << >>
                THEN /\ Raise(Exc("ValueError", "no tickers returned by provider"))
                     /\ UNCHANGED <<master_df, tickers>>
                ELSE /\ master_df' = m
                     /\ tickers' = resolved
                     /\ pc' = "benchmark"
                     /\ UNCHANGED error
    /\ UNCHANGED <<cfg, benchmark_close, future, feed, frames, observed, cursor,
                   full_df, industry_df, files, arg, ret, providerVars>>

\* benchmark_close = Close by Date of the standardized benchmark, dropna (130-132)
BenchmarkSeries(std) ==
    LET dates == {std[i].Date : i \in 1..Len(std)}
    IN [d \in dates |-> (CHOOSE r \in {std[i] : i \in 1..Len(std)} : r.Date = d).Close]

\* 120-136, then the branch of line 156
FetchBenchmark ==
    /\ pc = "benchmark"
    /\ \E b \in BenchmarkCatalog :
          IF b.raises
          THEN /\ Raise(Exc("ProviderError", "fetch_ohlcv failed"))
               /\ UNCHANGED <<benchmark_close, future, feed, cursor>>
          ELSE LET std == standardize_ohlcv(b.rows, MANSFIELD_BENCHMARK_TICKER)
               IN IF std.raised
                  THEN /\ Raise(Exc("ValueError", std.msg))
                       /\ UNCHANGED <<benchmark_close, future, feed, cursor>>
                  ELSE IF DOMAIN BenchmarkSeries(std.rows) = {}
                  THEN /\ Raise(Exc("ValueError", "benchmark close series is empty after standardization"))
                       /\ UNCHANGED <<benchmark_close, future, feed, cursor>>
                  ELSE /\ benchmark_close' = BenchmarkSeries(std.rows)
                       /\ feed' = [i \in 1..N |-> Unread]
                       /\ future' = [i \in 1..N |-> "unsubmitted"]
                       /\ cursor' = 1
                       /\ pc' = IF cfg.max_workers = 1 THEN "sequential" ELSE "submit"
                       /\ UNCHANGED error
    /\ UNCHANGED <<cfg, master_df, tickers, frames, observed, full_df, industry_df,
                   files, arg, ret, providerVars>>

\* step 3, sequential mode (156-162) ----------------------------------------

\* one pass of the for loop: fetch_one(ticker), append or wrap and raise
SeqFetch ==
    /\ pc = "sequential"
    /\ \E a \in FeedCatalog(tickers[cursor]) :
          LET r == fetch_one(tickers[cursor], a, benchmark_close)
          IN /\ feed' = [feed EXCEPT ![cursor] = ReadAs(a)]
             /\ observed' = Append(observed, cursor)
             /\ IF r.raised
                THEN /\ Raise(TickerProcessingError(tickers[cursor], STAGE_FETCH, r.msg))
                     /\ UNCHANGED <<frames, cursor>>
                ELSE /\ frames' = Append(frames, r.rows)
                     /\ cursor' = cursor + 1
                     /\ pc' = IF cursor = N THEN "concat" ELSE "sequential"
                     /\ UNCHANGED error
    /\ benchmark_close' = caller_series_after(benchmark_close)
    /\ UNCHANGED <<cfg, master_df, tickers, future, full_df,
                   industry_df, files, arg, ret, providerVars>>

\* step 3, parallel mode (165-179) ------------------------------------------

\* the tasks that occupy a thread of the pool
Running_uncounted == {}

Running == {i \in 1..N : future[i] = "running"}

\* future_by_ticker = {ex.submit(fetch_one, t): t for t in tickers}: one submit
SubmitTask ==
    /\ pc = "submit"
    /\ future' = [future EXCEPT ![cursor] = "pending"]
    /\ cursor' = cursor + 1
    /\ pc' = IF cursor = N THEN "collect" ELSE "submit"
    /\ UNCHANGED <<cfg, master_df, tickers, benchmark_close, feed, frames, observed,
                   full_df, industry_df, files, error, arg, ret, providerVars>>

\* a pool thread takes the oldest queued task; the pool has max_workers threads
TaskStart(i) ==
    /\ pc \in {"submit", "collect", "cancel", "shutdown"}
    /\ i \in DOMAIN future
    /\ future[i] = "pending"
    /\ \A j \in 1..(i - 1) : future[j] # "pending"
    /\ Cardinality(Running) < cfg.max_workers
    /\ future' = [future EXCEPT ![i] = "running"]
    /\ UNCHANGED <<pc, cfg, master_df, tickers, benchmark_close, feed, frames,
                   observed, cursor, full_df, industry_df, files, error, arg, ret, providerVars>>

\* the task returns its frame or raises; the future keeps the outcome
TaskFinish(i) ==
    /\ pc \in {"submit", "collect", "cancel", "shutdown"}
    /\ i \in DOMAIN future
    /\ future[i] = "running"
    /\ \E a \in FeedCatalog(tickers[i]) :
          /\ feed' = [feed EXCEPT ![i] = ReadAs(a)]
          /\ future' = [future EXCEPT ![i] =
                IF fetch_one(tickers[i], a, benchmark_close).raised THEN "failed" ELSE "ok"]
    /\ benchmark_close' = caller_series_after(benchmark_close)
    /\ UNCHANGED <<pc, cfg, master_df, tickers, frames, observed,
                   cursor, full_df, industry_df, files, error, arg, ret, providerVars>>

\* t = future_by_ticker[fut]
future_by_ticker_last(fut) == tickers[N]

future_by_ticker(fut) == tickers[fut]

\* one pass of the as_completed loop (169-174): a finished future not yet
\* handed over; append its frame, or wrap its error and leave the loop
\* for fut in as_completed(future_by_ticker) (169): the loop ends when the
\* iterator has yielded every submitted future
as_completed_exhausted_early(yielded) == yielded >= 1

as_completed_exhausted(yielded) == yielded = N

Collect_skipfailed ==
    /\ pc = "collect"
    /\ \E i \in 1..N :
          /\ future[i] \in {"ok", "failed"}
          /\ \A n \in 1..Len(observed) : observed[n] # i
          /\ observed' = Append(observed, i)
          /\ frames' = IF future[i] = "ok" THEN Append(frames, ResultOf(i).rows) ELSE frames
          /\ pc' = IF as_completed_exhausted(Len(observed) + 1) THEN "concat"
                         ELSE "collect"
          /\ UNCHANGED <<error, cursor>>
    /\ UNCHANGED <<cfg, master_df, tickers, benchmark_close, future, feed, full_df,
                   industry_df, files, arg, ret, providerVars>>

Collect ==
    /\ pc = "collect"
    /\ \E i \in 1..N :
          /\ future[i] \in {"ok", "failed"}
          /\ \A n \in 1..Len(observed) : observed[n] # i
          /\ observed' = Append(observed, i)
          /\ IF future[i] = "ok"
             THEN /\ frames' = Append(frames, ResultOf(i).rows)
                  /\ pc' = IF as_completed_exhausted(Len(observed) + 1) THEN "concat"
                         ELSE "collect"
                  /\ UNCHANGED <<error, cursor>>
             ELSE /\ error' = TickerProcessingError(future_by_ticker(i), STAGE_FETCH,
                                                    ResultOf(i).msg)
                  /\ pc' = "cancel"
                  /\ cursor' = 1
                  /\ UNCHANGED frames
    /\ UNCHANGED <<cfg, master_df, tickers, benchmark_close, future, feed, full_df,
                   industry_df, files, arg, ret, providerVars>>

\* for fut in future_by_ticker: fut.cancel()  (177-178): only a future still
\* queued is cancelled
CancelNext ==
    /\ pc = "cancel"
    /\ future' = [future EXCEPT ![cursor] = IF @ = "pending" THEN "cancelled" ELSE @]
    /\ cursor' = cursor + 1
    /\ pc' = IF cursor = N THEN "shutdown" ELSE "cancel"
    /\ UNCHANGED <<cfg, master_df, tickers, benchmark_close, feed, frames, observed,
                   full_df, industry_df, files, error, arg, ret, providerVars>>

\* raise (179) leaves the with block: ThreadPoolExecutor.__exit__ waits for
\* every task that is queued or running, then the error reaches the caller
Shutdown_nowait ==
    /\ pc = "shutdown"
    /\ pc' = "raised"
    /\ UNCHANGED <<cfg, master_df, tickers, benchmark_close, future, feed, frames,
                   observed, cursor, full_df, industry_df, files, error, arg, ret, providerVars>>

Shutdown ==
    /\ pc = "shutdown"
    /\ \A i \in 1..N : future[i] \notin {"pending", "running"}
    /\ pc' = "raised"
    /\ UNCHANGED <<cfg, master_df, tickers, benchmark_close, future, feed, frames,
                   observed, cursor, full_df, industry_df, files, error, arg, ret, providerVars>>

\* assembly, ranking, persistence (184-220) --------------------------------

\* pd.concat(frames, ignore_index=True): the rows of the frames in list order,
\* labelled by their position
ConcatFrames(fs) ==
    LET rows == Flatten(fs)
    IN << >> \o [i \in 1..Len(rows) |->
          [Date |-> rows[i].Date, Ticker |-> rows[i].Ticker, Close |-> rows[i].Close,
           raw |-> rows[i].raw, idx |-> i]]

\* .sort_values(["Date", "Ticker"])
SortPanel_bydate(df) ==
    StableSortByKey(df, [i \in 1..Len(df) |-> df[i].Date])

SortPanel(df) ==
    LET radix == 1 + MaxUniverse + MANSFIELD_BENCHMARK_TICKER
    IN StableSortByKey(df, [i \in 1..Len(df) |-> df[i].Date * radix + df[i].Ticker])

Concat ==
    /\ pc = "concat"
    /\ IF frames = << >>
       THEN /\ Raise(Exc("ValueError", "no feature frames produced"))
            /\ UNCHANGED full_df
       ELSE /\ full_df' = SortPanel(ConcatFrames(frames))
            /\ pc' = "rank"
            /\ UNCHANGED error
    /\ UNCHANGED <<cfg, master_df, tickers, benchmark_close, future, feed, frames,
                   observed, cursor, industry_df, files, arg, ret, providerVars>>

RankPanel ==
    /\ pc = "rank"
    /\ full_df' = MrsPercentileRanks(full_df)
    /\ pc' = "save"
    /\ UNCHANGED <<cfg, master_df, tickers, benchmark_close, future, feed, frames,
                   observed, cursor, industry_df, files, error, arg, ret, providerVars>>

\* write_parquet(full_df, cfg.output_path) (218): the file is written, or the
\* write raises before the file exists
SavePanel ==
    /\ pc = "save"
    /\ \/ /\ files' = [files EXCEPT !.panel = TRUE]
          /\ pc' = IF cfg.industry_output_path THEN "industry" ELSE "meta"
          /\ UNCHANGED error
       \/ /\ Raise(Exc("OSError", "write_parquet failed"))
          /\ UNCHANGED files
    /\ UNCHANGED <<cfg, master_df, tickers, benchmark_close, future, feed, frames,
                   observed, cursor, full_df, industry_df, arg, ret, providerVars>>

\* industry cache (224-254) --------------------------------------------------

\* industry_benchmark_close (228-239): the equal-weight universe index, or the
\* benchmark instrument's Close series
industry_benchmark_close ==
    IF cfg.industry_benchmark = INDUSTRY_BENCHMARK_UNIVERSE
    THEN BenchSeries(compute_universe_equal_weight_benchmark_close_by_date(
                        full_df, GlobalDates(full_df)))
    ELSE BenchSeries([d \in DOMAIN benchmark_close |-> <<benchmark_close[d], 1>>])

IndustryFrames ==
    [n \in 1..Len(INDUSTRY_LEVELS) |->
        compute_industry_feature_frame(full_df, master_df, industry_benchmark_close,
                                       INDUSTRY_LEVELS[n], GlobalDates(full_df))]

\* 224-254: the frames of the three levels, concatenated as they are returned
ComputeIndustry ==
    /\ pc = "industry"
    /\ IF cfg.industry_benchmark \notin {INDUSTRY_BENCHMARK_UNIVERSE, INDUSTRY_BENCHMARK_069500}
       THEN /\ Raise(Exc("ValueError", "invalid industry_benchmark"))
            /\ UNCHANGED industry_df
       ELSE \E ind_frames \in {IndustryFrames} :
          IF \E n \in 1..Len(INDUSTRY_LEVELS) : ind_frames[n].raised
          THEN /\ Raise(Exc("ValueError",
                            ind_frames[CHOOSE n \in 1..Len(INDUSTRY_LEVELS) :
                               /\ ind_frames[n].raised
                               /\ \A k \in 1..(n - 1) : ~ind_frames[k].raised].msg))
               /\ UNCHANGED industry_df
          ELSE /\ industry_df' = Flatten([n \in 1..Len(INDUSTRY_LEVELS) |-> ind_frames[n].rows])
               /\ pc' = "industry_save"
               /\ UNCHANGED error
    /\ UNCHANGED <<cfg, master_df, tickers, benchmark_close, future, feed, frames,
                   observed, cursor, full_df, files, arg, ret, providerVars>>

\* write_parquet(industry_df, cfg.industry_output_path) (261)
SaveIndustry ==
    /\ pc = "industry_save"
    /\ \/ /\ files' = [files EXCEPT !.industry = TRUE]
          /\ pc' = "industry_meta"
          /\ UNCHANGED error
       \/ /\ Raise(Exc("OSError", "write_parquet failed"))
          /\ UNCHANGED files
    /\ UNCHANGED <<cfg, master_df, tickers, benchmark_close, future, feed, frames,
                   observed, cursor, full_df, industry_df, arg, ret, providerVars>>

\* if cfg.industry_meta_output_path: write_json(industry_meta, ...) (287-288)
SaveIndustryMeta ==
    /\ pc = "industry_meta"
    /\ IF ~cfg.industry_meta_output_path
       THEN /\ pc' = "meta"
            /\ UNCHANGED <<files, error>>
       ELSE \/ /\ files' = [files EXCEPT !.industry_meta = TRUE]
               /\ pc' = "meta"
               /\ UNCHANGED error
            \/ /\ Raise(Exc("OSError", "write_json failed"))
               /\ UNCHANGED files
    /\ UNCHANGED <<cfg, master_df, tickers, benchmark_close, future, feed, frames,
                   observed, cursor, full_df, industry_df, arg, ret, providerVars>>

\* write_json(meta, cfg.meta_output_path); return meta (291-369)
SaveMeta ==
    /\ pc = "meta"
    /\ \/ /\ files' = [files EXCEPT !.meta = SuccessMeta]
          /\ pc' = "returned"
          /\ UNCHANGED error
       \/ /\ Raise(Exc("OSError", "write_json failed"))
          /\ UNCHANGED files
    /\ UNCHANGED <<cfg, master_df, tickers, benchmark_close, future, feed, frames,
                   observed, cursor, full_df, industry_df, arg, ret, providerVars>>

\* the caller -----------------------------------------------------------------

\* "Callers (CLI) should catch at the boundary to write failure meta" (102):
\* the caller catches the error, builds the failure record with
\* build_failure_meta and writes it to cfg.meta_output_path.
CallerWritesFailureMeta ==
    /\ pc = "raised"
    /\ files' = [files EXCEPT !.meta =
          IF error.kind = "TickerProcessingError"
          THEN build_failure_meta(error.stage, error, error.ticker)
          ELSE build_failure_meta("run_cache_build", error, 0)]
    /\ pc' = "exit"
    /\ UNCHANGED <<cfg, master_df, tickers, benchmark_close, future, feed, frames,
                   observed, cursor, full_df, industry_df, error, arg, ret, providerVars>>

CallerDone ==
    /\ pc = "returned"
    /\ pc' = "exit"
    /\ UNCHANGED <<cfg, master_df, tickers, benchmark_close, future, feed, frames,
                   observed, cursor, full_df, industry_df, files, error, arg, ret, providerVars>>

Next ==
    \/ LoadUniverse
    \/ FetchBenchmark
    \/ SeqFetch
    \/ SubmitTask
    \/ \E i \in 1..MaxUniverse : TaskStart(i)
    \/ \E i \in 1..MaxUniverse : TaskFinish(i)
    \/ Collect
    \/ CancelNext
    \/ Shutdown
    \/ Concat
    \/ RankPanel
    \/ SavePanel
    \/ ComputeIndustry
    \/ SaveIndustry
    \/ SaveIndustryMeta
    \/ SaveMeta
    \/ CallerWritesFailureMeta
    \/ CallerDone

Spec == Init /\ [][Next]_vars

----------------------------------------------------------------------------
(* Specification SpecRank: the ranking pass on every small panel *)

RawValues == {NA} \cup {Some(v) : v \in 1..MaxRaw}

\* a panel as run_cache_build assembles it: sorted by (Date, Ticker), at most
\* one row per pair; cell[<<d,t>>] is Absent or the row's raw value
Absent == <<0, 0>>

PanelOfCells(cell) ==
    LET present == {p \in (1..RankDates) \X (1..RankTickers) : cell[p] # Absent}
        keyed == SetToSortedSeq({p[1] * (RankTickers + 1) + p[2] : p \in present})
    IN [i \in 1..Len(keyed) |->
          LET d == keyed[i] \div (RankTickers + 1)
              t == keyed[i] % (RankTickers + 1)
          IN [Date |-> d, Ticker |-> t, Close |-> 1, idx |-> i, raw |-> cell[<<d, t>>]]]

RankCells == [(1..RankDates) \X (1..RankTickers) -> {Absent} \cup RawValues]

RunIdle ==
    /\ pc = "idle" /\ cfg = "idle" /\ master_df = "idle" /\ tickers = "idle"
    /\ benchmark_close = "idle" /\ future = "idle" /\ feed = "idle"
    /\ frames = "idle" /\ observed = "idle" /\ cursor = "idle"
    /\ full_df = "idle" /\ industry_df = "idle" /\ files = "idle" /\ error = "idle"
    /\ ProviderIdle

InitRank ==
    /\ RunIdle
    /\ \E cell \in RankCells : arg = [fn |-> "rank", df |-> PanelOfCells(cell)]
    /\ ret = NotRun

ApplyRank ==
    /\ arg.fn = "rank"
    /\ ~ret.done
    /\ ret' = Returned(MrsPercentileRanks(arg.df))
    /\ UNCHANGED <<arg, runVars, providerVars>>

NextRank == ApplyRank

SpecRank == InitRank /\ [][NextRank]_vars

----------------------------------------------------------------------------
(* Specification SpecRankDates: the ranking pass on every panel of two
   instruments over two dates *)

TwoDates == {1, 2}
TwoTickers == {1, 2}

TwoDateCells == [TwoDates \X TwoTickers -> {Absent} \cup RawValues]

\* the panel sorted by (Date, Ticker), as PanelOfCells builds it
TwoDatePanel(cell) ==
    LET present == {p \in TwoDates \X TwoTickers : cell[p] # Absent}
        keyed == SetToSortedSeq({p[1] * 3 + p[2] : p \in present})
    IN [i \in 1..Len(keyed) |->
          LET d == keyed[i] \div 3
              t == keyed[i] % 3
          IN [Date |-> d, Ticker |-> t, Close |-> 1, idx |-> i, raw |-> cell[<<d, t>>]]]

InitRankDates ==
    /\ RunIdle
    /\ \E cell \in TwoDateCells : arg = [fn |-> "rank", df |-> TwoDatePanel(cell)]
    /\ ret = NotRun

SpecRankDates == InitRankDates /\ [][NextRank]_vars

----------------------------------------------------------------------------
(* Specification SpecIndustry: the industry frames of every small panel and
   taxonomy master, at every level *)

IndDates == 2

\* the inputs drawn: the codes of the panel, the Close values of its rows, and
\* the number of rows of the master
PanelCodes == {1, 2}
CloseValues == {1, 2}
MasterLengths == {0, 1, 2}

\* the panel with one row per present (Date, Ticker) cell, sorted as the
\* orchestrator sorts it; cell 0 means no row
IndustryPanel(cell) ==
    LET present == {p \in (1..IndDates) \X PanelCodes : cell[p] # 0}
        radix == Cardinality(PanelCodes) + 1
        keyed == SetToSortedSeq({p[1] * radix + p[2] : p \in present})
    IN [i \in 1..Len(keyed) |->
          LET d == keyed[i] \div radix
              t == keyed[i] % radix
          IN [Date |-> d, Ticker |-> t, Close |-> cell[<<d, t>>]]]

\* (Market, IndustryLarge, IndustryMid, IndustrySmall) of a master row: named
\* industries, a missing IndustryLarge, the blank strings a master carries
\* ("NaN", "None", " "), and a row of Market ETF
MasterKinds ==
    { <<"KOSPI", "A", "M", "S">>,
      <<"KOSPI", PyNone, "M", "S">>,
      <<"KOSDAQ", "NaN", "None", " ">>,
      <<"ETF", "A", "M", "S">> }

MasterEntries ==
    {[Code |-> c, Market |-> k[1], IndustryLarge |-> k[2], IndustryMid |-> k[3],
      IndustrySmall |-> k[4]] : c \in PanelCodes, k \in MasterKinds}

Masters == UNION {[1..n -> MasterEntries] : n \in MasterLengths}

LevelsTried == {INDUSTRY_LEVEL_L, INDUSTRY_LEVEL_LM, INDUSTRY_LEVEL_LMS, "XL"}

InitIndustry ==
    /\ RunIdle
    /\ \E cell \in [(1..IndDates) \X PanelCodes -> {0} \cup CloseValues], m \in Masters :
          arg = [fn |-> "industry", feature_df |-> IndustryPanel(cell), master |-> m]
    /\ ret = NotRun

\* ind_frames = [compute_industry_feature_frame(full_df, ..., level=lvl,
\*               global_dates=global_dates) for lvl in ...]
ApplyIndustry ==
    /\ arg.fn = "industry"
    /\ ~ret.done
    /\ ret' = Returned([lvl \in LevelsTried |->
                 compute_industry_feature_frame(
                     arg.feature_df, arg.master,
                     BenchSeries(compute_universe_equal_weight_benchmark_close_by_date(
                                    arg.feature_df, GlobalDates(arg.feature_df))),
                     lvl, GlobalDates(arg.feature_df))])
    /\ UNCHANGED <<arg, runVars, providerVars>>

NextIndustry == ApplyIndustry

SpecIndustry == InitIndustry /\ [][NextIndustry]_vars

----------------------------------------------------------------------------
(* Specification SpecFeatures: compute_features on series whose lengths sit
   around each configured window *)

TailRows == 2
MaxShape == 4

AllWindows ==
    {MA_WINDOWS[n] : n \in 1..Len(MA_WINDOWS)}
      \cup {MRS_WINDOWS[h] : h \in DOMAIN MRS_WINDOWS}
      \cup {MANSFIELD_RS_SMA_WINDOW, NEW_HIGH_WINDOW_TRADING_DAYS}

\* one row short of a window, exactly the window, and up to TailRows beyond it
SeriesLengths == {1} \cup {w - 1 + k : w \in AllWindows, k \in 0..TailRows}

\* Close of the record of date d: rising, falling, constant, or periodic
SeriesClose(shape, d, len) ==
    CASE shape = 1 -> d
      [] shape = 2 -> len + 1 - d
      [] shape = 3 -> 7
      [] OTHER -> 1 + ((shape * d) % (shape + 3))

\* the records of the series, handed over in date order or in reverse
SeriesRows(shape, len, reversed) ==
    << >> \o [i \in 1..len |->
        LET d == IF reversed THEN len + 1 - i ELSE i
        IN [Date |-> d, Close |-> SeriesClose(shape, d, len),
            Volume |-> 10 * SeriesClose(shape, d, len), Ticker |-> 1]]

\* no benchmark, an empty one, a flat one, and one that lacks the first date
FeatureBenchmarks(len) ==
    { BenchNone, BenchSeries(<< >>),
      BenchSeries([d \in 1..len |-> 100]),
      BenchSeries([d \in 2..(len + 1) |-> 50]) }

InitFeatures ==
    /\ RunIdle
    /\ \E shape \in 1..MaxShape, len \in SeriesLengths, reversed \in BOOLEAN :
         \E b \in FeatureBenchmarks(len) :
            arg = [fn |-> "features", ohlcv_df |-> SeriesRows(shape, len, reversed),
                   benchmark |-> b]
    /\ ret = NotRun

ApplyFeatures ==
    /\ arg.fn = "features"
    /\ ~ret.done
    /\ ret' = Returned(FeatureColumns(arg.ohlcv_df, arg.benchmark))
    /\ UNCHANGED <<arg, runVars, providerVars>>

NextFeatures == ApplyFeatures

SpecFeatures == InitFeatures /\ [][NextFeatures]_vars

----------------------------------------------------------------------------
(* Specification SpecBenchmark: compute_features against benchmark series
   whose index repeats a date *)

\* series just long enough for the shortest relative-strength window
ShortLengths == {MRS_WINDOWS.MRS_1M, MRS_WINDOWS.MRS_1M + 1}

RepeatedValues == {50, 200}

\* the flat benchmark of the tests; the same series concatenated with itself;
\* and the flat series with one more entry for one of its dates, observed
\* after or before the entry the series already has for that date
BenchmarkEntries(len) ==
    LET bench == << >> \o [d \in 1..len |-> BenchEntry(d, 100)]
    IN {bench, bench \o bench}
         \cup {Append(bench, BenchEntry(d, v)) : d \in {1, len - 1, len}, v \in RepeatedValues}
         \cup {<<BenchEntry(d, v)>> \o bench : d \in {1, len - 1, len}, v \in RepeatedValues}

InitBenchmark ==
    /\ RunIdle
    /\ \E shape \in 1..MaxShape, len \in ShortLengths, reversed \in BOOLEAN :
         \E es \in BenchmarkEntries(len) :
            arg = [fn |-> "features_entries", ohlcv_df |-> SeriesRows(shape, len, reversed),
                   entries |-> es]
    /\ ret = NotRun

ApplyFeaturesOfEntries ==
    /\ arg.fn = "features_entries"
    /\ ~ret.done
    /\ ret' = Returned(FeatureColumnsOfEntries(arg.ohlcv_df, arg.entries))
    /\ UNCHANGED <<arg, runVars, providerVars>>

NextBenchmark == ApplyFeaturesOfEntries

SpecBenchmark == InitBenchmark /\ [][NextBenchmark]_vars

----------------------------------------------------------------------------
(* Specification SpecFetchApi: one call of KISAuth.fetch_api against every
   sequence of responses; SpecFetchApiLive adds that each request and each
   sleep of the calling thread returns *)

OrchestratorIdle ==
    /\ cfg = "idle" /\ master_df = "idle" /\ tickers = "idle"
    /\ benchmark_close = "idle" /\ future = "idle" /\ feed = "idle"
    /\ frames = "idle" /\ observed = "idle" /\ cursor = "idle"
    /\ full_df = "idle" /\ industry_df = "idle" /\ files = "idle" /\ error = "idle"

fetchVars == <<cfg, master_df, tickers, benchmark_close, future, feed, frames, observed,
               cursor, full_df, industry_df, files, error, arg, now, _next_allowed_at,
               _lock, thread, returned_at, current_start, chunks>>

\* for attempt in range(self._max_retries + 1)   (145): the first value, or
\* the end of an empty range
InitFetchApi ==
    /\ OrchestratorIdle
    /\ \E m \in -1..MaxRetries : arg = [fn |-> "fetch_api", max_retries |-> m]
    /\ pc = IF arg.max_retries + 1 > 0 THEN "attempt" ELSE "exhausted"
    /\ attempt = 0
    /\ last_err = PyNone
    /\ requests = << >>
    /\ sleeps = << >>
    /\ ret = NotRun
    /\ now = "idle" /\ _next_allowed_at = "idle" /\ _lock = "idle"
    /\ thread = "idle" /\ returned_at = "idle"
    /\ current_start = "idle" /\ chunks = "idle"

\* break (156, 170, 183) at the last attempt, the backoff sleep otherwise
RetryOrBreak(err) ==
    IF is_last_attempt(attempt, arg.max_retries)
    THEN /\ last_err' = err
         /\ pc' = "exhausted"
    ELSE /\ last_err' = IF err = "RequestException" THEN err ELSE last_err
         /\ pc' = "sleep"

\* one pass of the loop body (146-189) up to the return, the raise, the break
\* or the sleep
Attempt ==
    /\ pc = "attempt"
    /\ \E auth \in AuthOutcomes :
          IF auth = "refused"
          THEN /\ ret' = Returned(ApiRaised("RuntimeError", "Authentication failed"))
               /\ pc' = "raised"
               /\ UNCHANGED <<requests, last_err>>
          ELSE IF auth = "transport"
          THEN /\ ret' = Returned(ApiRaised("RequestException", "token request"))
               /\ pc' = "raised"
               /\ UNCHANGED <<requests, last_err>>
          ELSE \E res \in Responses \cup {RequestException} :
                 /\ requests' = Append(requests, res)
                 /\ IF res.raises
                    THEN /\ RetryOrBreak("RequestException")
                         /\ UNCHANGED ret
                    ELSE IF IsSuccess(res)
                    THEN /\ ret' = Returned(ApiReturned(res))
                         /\ pc' = "returned"
                         /\ UNCHANGED last_err
                    ELSE IF _is_kis_rate_limit_error(res)
                    THEN /\ RetryOrBreak(IF res.status_code = 200
                                         THEN "RuntimeError: HTTP/API rate limit"
                                         ELSE "RuntimeError: HTTP rate limit")
                         /\ UNCHANGED ret
                    ELSE /\ ret' = Returned(ApiRaised("RuntimeError",
                                        IF res.status_code = 200 THEN "API error"
                                        ELSE "HTTP error"))
                         /\ pc' = "raised"
                         /\ UNCHANGED last_err
    /\ UNCHANGED <<attempt, sleeps, fetchVars>>

\* time.sleep(delay); continue   (157-160, 171-174, 184-187): the loop takes
\* the next value of the range, or ends
BackoffSleep ==
    /\ pc = "sleep"
    /\ sleeps' = Append(sleeps, attempt)
    /\ IF attempt + 1 < arg.max_retries + 1
       THEN /\ attempt' = attempt + 1
            /\ pc' = "attempt"
       ELSE /\ pc' = "exhausted"
            /\ UNCHANGED attempt
    /\ UNCHANGED <<last_err, requests, ret, fetchVars>>

\* raise RuntimeError(f"KIS API request failed after retries: {last_err}")  (191)
RaiseAfterRetries ==
    /\ pc = "exhausted"
    /\ ret' = Returned(ApiRaised("RuntimeError", "KIS API request failed after retries"))
    /\ pc' = "raised"
    /\ UNCHANGED <<attempt, last_err, requests, sleeps, fetchVars>>

NextFetchApi == Attempt \/ BackoffSleep \/ RaiseAfterRetries

SpecFetchApi == InitFetchApi /\ [][NextFetchApi]_vars

SpecFetchApiLive == SpecFetchApi /\ WF_vars(NextFetchApi)

----------------------------------------------------------------------------
(* Specification SpecRateLimiter: threads that share one _RateLimiter each
   call wait() once, under every interleaving and every passing of time *)

MaxInterval == 2
MaxClock == 5

Threads == {1, 2}

\* a thread's position in wait() and its locals
InWait(at, sleep_for, wake) == [pc |-> at, sleep_for |-> sleep_for, wake |-> wake]

limiterRest == <<pc, cfg, master_df, tickers, benchmark_close, future, feed, frames,
                 observed, cursor, full_df, industry_df, files, error, arg, ret,
                 attempt, last_err, requests, sleeps, current_start, chunks>>

\* __init__ (24-29): the interval, the free lock, _next_allowed_at = 0.0
InitRateLimiter ==
    /\ OrchestratorIdle
    /\ pc = "idle"
    /\ \E i \in 0..MaxInterval : arg = [fn |-> "wait", _min_interval_seconds |-> i]
    /\ ret = NotRun
    /\ attempt = "idle" /\ last_err = "idle" /\ requests = "idle" /\ sleeps = "idle"
    /\ current_start = "idle" /\ chunks = "idle"
    /\ now \in 0..1
    /\ _next_allowed_at = 0
    /\ _lock = 0
    /\ thread = [t \in Threads |-> InWait("call", 0, 0)]
    /\ returned_at = << >>

\* time.monotonic() advances while the threads run, wait or sleep
Tick ==
    /\ now < MaxClock
    /\ now' = now + 1
    /\ UNCHANGED <<_next_allowed_at, _lock, thread, returned_at, limiterRest>>

\* if self._min_interval_seconds <= 0: return   (32-33)
ReturnAtOnce(t) ==
    /\ thread[t].pc = "call"
    /\ arg._min_interval_seconds <= 0
    /\ thread' = [thread EXCEPT ![t] = InWait("returned", 0, 0)]
    /\ returned_at' = Append(returned_at, now)
    /\ UNCHANGED <<now, _next_allowed_at, _lock, limiterRest>>

\* with self._lock:   (35)
Acquire(t) ==
    /\ thread[t].pc = "call"
    /\ arg._min_interval_seconds > 0
    /\ _lock = 0
    /\ _lock' = t
    /\ thread' = [thread EXCEPT ![t] = InWait("locked", 0, 0)]
    /\ UNCHANGED <<now, _next_allowed_at, returned_at, limiterRest>>

\* lines 36-41, then the lock is released: the clock is read once, the time
\* to the reserved slot is kept in sleep_for, and the next slot is reserved
Reserve(t) ==
    /\ thread[t].pc = "locked"
    /\ LET sleep_for == IF now < _next_allowed_at THEN _next_allowed_at - now ELSE 0
           base == IF _next_allowed_at > now THEN _next_allowed_at ELSE now
       IN /\ _next_allowed_at' = base + arg._min_interval_seconds
          /\ thread' = [thread EXCEPT ![t] = InWait("unlocked", sleep_for, 0)]
    /\ _lock' = 0
    /\ UNCHANGED <<now, returned_at, limiterRest>>

\* if sleep_for > 0: time.sleep(sleep_for)   (42-43): the sleep starts when
\* the thread gets to it and lasts at least sleep_for
Sleep(t) ==
    /\ thread[t].pc = "unlocked"
    /\ thread[t].sleep_for > 0
    /\ thread' = [thread EXCEPT ![t] = InWait("sleeping", @.sleep_for, now + @.sleep_for)]
    /\ UNCHANGED <<now, _next_allowed_at, _lock, returned_at, limiterRest>>

\* wait() returns: without a sleep, or when the sleep is over
Return(t) ==
    /\ \/ thread[t].pc = "unlocked" /\ thread[t].sleep_for = 0
       \/ thread[t].pc = "sleeping" /\ now >= thread[t].wake
    /\ thread' = [thread EXCEPT ![t] = InWait("returned", @.sleep_for, @.wake)]
    /\ returned_at' = Append(returned_at, now)
    /\ UNCHANGED <<now, _next_allowed_at, _lock, limiterRest>>

NextRateLimiter ==
    \/ Tick
    \/ \E t \in Threads : ReturnAtOnce(t)
    \/ \E t \in Threads : Acquire(t)
    \/ \E t \in Threads : Reserve(t)
    \/ \E t \in Threads : Sleep(t)
    \/ \E t \in Threads : Return(t)

SpecRateLimiter == InitRateLimiter /\ [][NextRateLimiter]_vars

----------------------------------------------------------------------------
(* Specification SpecChunks: _split_date_range_into_chunks on ranges whose
   lengths sit around whole numbers of years *)

RangeStarts == {<<2019, 1, 1>>, <<2020, 2, 29>>, <<2021, 1, 1>>}

\* end - start in days: the same day, the next days, and the days around
\* one to five years
RangeDays == {0, 1, 2, 364, 365, 366, 367, 730, 731, 732, 733, 1095, 1096, 1097, 1826, 1827}

chunkRest == <<cfg, master_df, tickers, benchmark_close, future, feed, frames, observed,
               cursor, full_df, industry_df, files, error, arg, attempt, last_err,
               requests, sleeps, now, _next_allowed_at, _lock, thread, returned_at>>

\* lines 76-80
InitChunks ==
    /\ OrchestratorIdle
    /\ \E start \in RangeStarts, days \in RangeDays, y \in 1..MaxYears :
          arg = [fn |-> "chunks", start_date |-> start,
                 end_date |-> strftime(to_datetime(start) + days), max_years |-> y]
    /\ pc = "while"
    /\ current_start = to_datetime(arg.start_date)
    /\ chunks = << >>
    /\ ret = NotRun
    /\ attempt = "idle" /\ last_err = "idle" /\ requests = "idle" /\ sleeps = "idle"
    /\ now = "idle" /\ _next_allowed_at = "idle" /\ _lock = "idle"
    /\ thread = "idle" /\ returned_at = "idle"

\* one pass of the loop (82-92)
AppendChunk ==
    /\ pc = "while"
    /\ loop_continues(current_start, to_datetime(arg.end_date))
    /\ LET chunk_end == chunk_end_of(current_start, to_datetime(arg.end_date), arg.max_years)
       IN /\ chunks' = Append(chunks, <<strftime(current_start), strftime(chunk_end)>>)
          /\ current_start' = chunk_end + 1
    /\ UNCHANGED <<pc, ret, chunkRest>>

\* return chunks   (94)
ReturnChunks ==
    /\ pc = "while"
    /\ ~loop_continues(current_start, to_datetime(arg.end_date))
    /\ ret' = Returned(chunks)
    /\ pc' = "returned"
    /\ UNCHANGED <<current_start, chunks, chunkRest>>

NextChunks == AppendChunk \/ ReturnChunks

SpecChunks == InitChunks /\ [][NextChunks]_vars

----------------------------------------------------------------------------
(* Specification SpecStandardize: standardize_ohlcv on every short raw series *)

MaxSeries == 2

\* Close as the provider may hand it over: missing, negative, zero, positive
RawCloses == {NA, Some(-1), Some(0), Some(1), Some(2)}

RawRecords == {RawRec(d, c, NA) : d \in {1, 2}, c \in RawCloses}

RawSeries == UNION {[1..n -> RawRecords] : n \in 0..MaxSeries}

InitStandardize ==
    /\ RunIdle
    /\ \E raw \in RawSeries : arg = [fn |-> "standardize", raw_df |-> << >> \o raw]
    /\ ret = NotRun

ApplyStandardize ==
    /\ arg.fn = "standardize"
    /\ ~ret.done
    /\ ret' = Returned(standardize_ohlcv(arg.raw_df, 1))
    /\ UNCHANGED <<arg, runVars, providerVars>>

NextStandardize == ApplyStandardize

SpecStandardize == InitStandardize /\ [][NextStandardize]_vars

----------------------------------------------------------------------------
(* Claims about the ranking pass, checked under SpecRank *)

\* the population of row i's date, stated on the input: rows of the same Date
\* with a raw value
SameDateValued(df, i) == {j \in 1..Len(df) : df[j].Date = df[i].Date /\ df[j].raw # NA}

\* C6: for each date, the percentile of an instrument with a raw value is
\* 100 x (average rank among the raw values of that date, ties sharing the
\* mean of their ranks) / (number of raw values of that date), rounded to 2
\* decimals; an instrument without a raw value is outside that population and
\* gets a missing percentile.  With less = #smaller, eq = #equal (itself
\* included) and n = #valued, the average rank is less + (eq + 1) / 2, so the
\* hundredths h satisfy |h - 10000 (2 less + eq + 1) / (2 n)| <= 1/2.
C6_PercentileIsAverageRankOverValued ==
    ret.done =>
        \A i \in 1..Len(arg.df) :
            LET df == arg.df
                S == SameDateValued(df, i)
                n == Cardinality(S)
                less == Cardinality({j \in S : df[j].raw[1] < df[i].raw[1]})
                eq == Cardinality({j \in S : df[j].raw[1] = df[i].raw[1]})
                h == ret.val[i].MRS[1]
                diff == 2 * n * h - 10000 * (2 * less + eq + 1)
            IN /\ ret.val[i].Date = df[i].Date
               /\ ret.val[i].Ticker = df[i].Ticker
               /\ IF df[i].raw = NA THEN ret.val[i].MRS = NA
                  ELSE /\ ret.val[i].MRS # NA
                       /\ diff <= n
                       /\ 0 - diff <= n

\* a date with a missing value and two tied values: the tied pair gets 75.00
C6_Witness ==
    /\ ret.done
    /\ \E i, j, k \in 1..Len(arg.df) :
          /\ j # k
          /\ arg.df[i].Date = arg.df[j].Date /\ arg.df[j].Date = arg.df[k].Date
          /\ arg.df[i].raw = NA
          /\ arg.df[j].raw # NA /\ arg.df[j].raw = arg.df[k].raw
          /\ ret.val[j].MRS = Some(7500)

\* C7: on every date each percentile lies in [0,100], a strictly larger raw
\* value never gets a smaller percentile, and the untied maximum of the date
\* gets exactly 100.
C7_PercentileBoundedMonotoneMaxIs100 ==
    ret.done =>
        \A i \in 1..Len(arg.df) :
            arg.df[i].raw # NA =>
                LET df == arg.df
                    S == SameDateValued(df, i)
                    h(j) == ret.val[j].MRS[1]
                IN /\ ret.val[i].MRS # NA
                   /\ h(i) >= 0 /\ h(i) <= 10000
                   /\ \A j \in S : df[j].raw[1] < df[i].raw[1] => h(j) <= h(i)
                   /\ (\A j \in S \ {i} : df[j].raw[1] < df[i].raw[1]) => h(i) = 10000

\* three instruments on one date, one without a value, the other two ordered:
\* the smaller gets 50.00 and the larger 100.00
C7_Witness ==
    /\ ret.done
    /\ \E i, j, k \in 1..Len(arg.df) :
          /\ arg.df[i].Date = arg.df[j].Date /\ arg.df[j].Date = arg.df[k].Date
          /\ arg.df[k].raw = NA
          /\ arg.df[i].raw # NA /\ arg.df[j].raw # NA
          /\ arg.df[i].raw[1] < arg.df[j].raw[1]
          /\ ret.val[i].MRS = Some(5000)
          /\ ret.val[j].MRS = Some(10000)

----------------------------------------------------------------------------
(* Claims about the ranking pass, checked under SpecRankDates *)

\* what a panel holds on date d: the instruments and a column of theirs
OnDate(df, d, col(_)) == {<<df[i].Ticker, col(df[i])>> : i \in {j \in 1..Len(df) : df[j].Date = d}}

RawOf(r) == r.raw
MrsOf(r) == r.MRS

\* C23: the percentiles of date d are a function of the raw values of date d
\* alone: any other panel that holds the same instruments with the same raw
\* values on d, whatever rows and values it has on the other dates, gets the
\* same percentile for every instrument on d.
C23_PercentileDependsOnItsDateOnly ==
    (arg.fn = "rank" /\ ret.done) =>
        \A cell \in TwoDateCells :
            LET other == TwoDatePanel(cell)
            IN \A d \in TwoDates :
                  OnDate(other, d, RawOf) = OnDate(arg.df, d, RawOf)
                      => OnDate(MrsPercentileRanks(other), d, MrsOf) = OnDate(ret.val, d, MrsOf)

\* two different raw values on the first date and, on the second date, a raw
\* value that ties with the larger of them
C23_Witness ==
    /\ arg.fn = "rank" /\ ret.done
    /\ Len(arg.df) = 3
    /\ arg.df[1].Date = 1 /\ arg.df[2].Date = 1 /\ arg.df[3].Date = 2
    /\ arg.df[1].raw = Some(1) /\ arg.df[2].raw = Some(2) /\ arg.df[3].raw = Some(2)
    /\ ret.val[1].MRS = Some(5000) /\ ret.val[2].MRS = Some(10000)
    /\ ret.val[3].MRS = Some(10000)

----------------------------------------------------------------------------
(* Claims about the industry frame, checked under SpecIndustry *)

SupportedLevels == {INDUSTRY_LEVEL_L, INDUSTRY_LEVEL_LM, INDUSTRY_LEVEL_LMS}

\* the forms of a blank or missing taxonomy field
Blank(v) == v \in {PyNone, PyNaN, "", " ", "None", "NaN", "nan"}
Label(v) == IF Blank(v) THEN "Unknown" ELSE v

KeyAtLevel(large, mid, small, lvl) ==
    IF lvl = INDUSTRY_LEVEL_L THEN <<Label(large)>>
    ELSE IF lvl = INDUSTRY_LEVEL_LM THEN <<Label(large), Label(mid)>>
    ELSE <<Label(large), Label(mid), Label(small)>>

EntryKey(e, lvl) == KeyAtLevel(e.IndustryLarge, e.IndustryMid, e.IndustrySmall, lvl)
AllUnknownKey(lvl) == KeyAtLevel(PyNone, PyNone, PyNone, lvl)

PanelTickers(df) == {df[i].Ticker : i \in 1..Len(df)}
PanelDates(df) == {df[i].Date : i \in 1..Len(df)}
HasRecord(df, t, d) == \E i \in 1..Len(df) : df[i].Ticker = t /\ df[i].Date = d
HasReturn(df, t, d) == HasRecord(df, t, d) /\ \E e \in 1..(d - 1) : HasRecord(df, t, e)

EntriesOf(master, t) == {master[i] : i \in {j \in 1..Len(master) : master[j].Code = t}}
EquityEntriesOf(master, t) == {e \in EntriesOf(master, t) : e.Market # "ETF"}

\* the keys an instrument carries after the join: those of its master rows
\* that survive the ETF filter, the all-Unknown key when none does
JoinedKeysOf(master, t, lvl) ==
    IF EquityEntriesOf(master, t) = {} THEN {AllUnknownKey(lvl)}
    ELSE {EntryKey(e, lvl) : e \in EquityEntriesOf(master, t)}

RowsAt(rows, k, d) == {i \in 1..Len(rows) : rows[i].IndustryKey = k /\ rows[i].Date = d}

\* C8: at every supported level the industry frame has exactly one row for
\* each (IndustryKey, Date) with the key present after the taxonomy join and
\* the date in the global date grid, and no other row: no pair is missing,
\* none is duplicated, also on dates where the key has no constituent record.
C8_OneRowPerKeyAndGridDate ==
    ret.done =>
        \A lvl \in SupportedLevels :
            LET r == ret.val[lvl]
                df == arg.feature_df
                keys == UNION {JoinedKeysOf(arg.master, t, lvl) : t \in PanelTickers(df)}
            IN ~r.raised =>
                 /\ \A k \in keys, d \in PanelDates(df) : Cardinality(RowsAt(r.rows, k, d)) = 1
                 /\ \A i \in 1..Len(r.rows) :
                       r.rows[i].IndustryKey \in keys /\ r.rows[i].Date \in PanelDates(df)

\* a key gets its row on a grid date on which none of its constituents has a record
C8_Witness ==
    /\ ret.done
    /\ \E lvl \in SupportedLevels :
          /\ ~ret.val[lvl].raised
          /\ \E i \in 1..Len(ret.val[lvl].rows) :
                LET row == ret.val[lvl].rows[i]
                IN /\ row.ConstituentCount = 0
                   /\ \A t \in PanelTickers(arg.feature_df) :
                         row.IndustryKey \in JoinedKeysOf(arg.master, t, lvl)
                            => ~HasRecord(arg.feature_df, t, row.Date)

\* the instruments the claim is about: an equity master row with a blank
\* IndustryLarge, or no master row at all
BlankLargeKeysOf(master, t, lvl) ==
    IF EntriesOf(master, t) = {} THEN {AllUnknownKey(lvl)}
    ELSE {EntryKey(e, lvl) : e \in {x \in EquityEntriesOf(master, t) : Blank(x.IndustryLarge)}}

\* the instruments known to sit under key k without relying on the ETF filter
KnownMembers(df, master, k, lvl) ==
    {u \in PanelTickers(df) :
        \/ \E e \in EquityEntriesOf(master, u) : EntryKey(e, lvl) = k
        \/ EntriesOf(master, u) = {} /\ k = AllUnknownKey(lvl)}

EtfOnly(master, t) == EntriesOf(master, t) # {} /\ EquityEntriesOf(master, t) = {}

\* C10: instruments the master marks Market = ETF are excluded from the
\* industry strength calculation: at every level no IndustryReturn and no
\* ConstituentCount depends on their rows, i.e. each row of the frame carries
\* the return and count it carries when the ETF instruments' rows are taken
\* out of the panel (0.0 and 0 for a key that then has no row).
C10_EtfContributesNowhere ==
    ret.done =>
        \A lvl \in SupportedLevels :
            LET r == ret.val[lvl]
                df == arg.feature_df
                kept == SubSeqAt(df, {i \in 1..Len(df) : ~EtfOnly(arg.master, df[i].Ticker)})
                clean == compute_industry_feature_frame(kept, arg.master, BenchNone, lvl,
                                                       GlobalDates(df))
            IN ~r.raised =>
                 \A i \in 1..Len(r.rows) :
                    LET same == IF clean.raised THEN {}
                                ELSE RowsAt(clean.rows, r.rows[i].IndustryKey, r.rows[i].Date)
                    IN IF same = {}
                       THEN /\ r.rows[i].ConstituentCount = 0
                            /\ r.rows[i].IndustryReturn = <<0, 1>>
                       ELSE \A j \in same :
                               /\ r.rows[i].ConstituentCount = clean.rows[j].ConstituentCount
                               /\ r.rows[i].IndustryReturn = clean.rows[j].IndustryReturn

\* the rows of s in the order p, a permutation of 1..Len(s)
Reordered(s, p) == << >> \o [i \in 1..Len(s) |-> s[p[i]]]

\* what a frame says of each (IndustryKey, Date): return, count and close
IndexValues(frame) ==
    IF frame.raised THEN {<<"raised", frame.msg>>}
    ELSE {<<frame.rows[i].IndustryKey, frame.rows[i].Date, frame.rows[i].IndustryReturn,
            frame.rows[i].ConstituentCount, frame.rows[i].IndustryClose>> :
                i \in 1..Len(frame.rows)}

\* C12: the universe index and, at every level, the IndustryReturn,
\* ConstituentCount and IndustryClose of every (IndustryKey, Date) are the
\* same for every order of the rows of the panel and every order of the rows
\* of the taxonomy master.
C12_IndexIndependentOfRowOrder ==
    ret.done =>
        LET gd == GlobalDates(arg.feature_df)
        IN \A p \in Permutations(1..Len(arg.feature_df)),
              q \in Permutations(1..Len(arg.master)) :
              LET panel == Reordered(arg.feature_df, p)
                  taxonomy == Reordered(arg.master, q)
              IN /\ compute_universe_equal_weight_benchmark_close_by_date(panel, gd)
                      = compute_universe_equal_weight_benchmark_close_by_date(
                            arg.feature_df, gd)
                 /\ \A lvl \in SupportedLevels :
                       IndexValues(compute_industry_feature_frame(
                                       panel, taxonomy, BenchNone, lvl, gd))
                         = IndexValues(ret.val[lvl])

\* the Close of instrument t on date d, and its daily return: the change
\* against its own previous record
CloseOn(df, t, d) == df[CHOOSE i \in 1..Len(df) : df[i].Ticker = t /\ df[i].Date = d].Close

DailyReturn(df, t, d) ==
    LET earlier == {e \in 1..(d - 1) : HasRecord(df, t, e)}
        prev == CHOOSE e \in earlier : \A x \in earlier : x <= e
    IN Frac(CloseOn(df, t, d) - CloseOn(df, t, prev), CloseOn(df, t, prev))

\* the distinct constituents of key k that have a return on date d
Contributors(df, master, k, lvl, d) ==
    {t \in PanelTickers(df) : k \in JoinedKeysOf(master, t, lvl) /\ HasReturn(df, t, d)}

\* C24: for every (IndustryKey, Date) on which at least one constituent has a
\* daily return, IndustryReturn is the unweighted mean of the daily returns of
\* the distinct constituents that have one that date and ConstituentCount is
\* their number: an instrument contributes at most once per date, also when
\* the master lists its Code more than once.
C24_ReturnIsMeanOverDistinctConstituents ==
    ret.done =>
        \A lvl \in SupportedLevels :
            LET r == ret.val[lvl]
                df == arg.feature_df
            IN ~r.raised =>
                 \A i \in 1..Len(r.rows) :
                    LET row == r.rows[i]
                        who == SetToSortedSeq(Contributors(df, arg.master, row.IndustryKey,
                                                           lvl, row.Date))
                    IN who # << >> =>
                         /\ row.ConstituentCount = Len(who)
                         /\ Some(row.IndustryReturn)
                              = FracMean([n \in 1..Len(who) |-> DailyReturn(df, who[n], row.Date)])

\* the same statement for the taxonomy masters that list no Code twice
C24_HoldsForUniqueCodes ==
    (ret.done /\ \A a, b \in 1..Len(arg.master) :
                    arg.master[a].Code = arg.master[b].Code => a = b)
        => C24_ReturnIsMeanOverDistinctConstituents

\* the row of key k on the n-th date of the grid
GridRow(rows, k, gd, n) == rows[CHOOSE i \in 1..Len(rows) :
                                   rows[i].IndustryKey = k /\ rows[i].Date = gd[n]]

\* IndustryClose of key k just before the n-th grid date: the base 100 before
\* the first one
CloseBefore(rows, k, gd, n) ==
    IF n = 1 THEN <<100, 1>> ELSE GridRow(rows, k, gd, n - 1).IndustryClose

\* the close of every key follows the recurrence from base 100 over the grid,
\* and the rows of a key are those of the frame computed from the records of
\* the key's own constituents alone
Compounds(r, df, master, lvl) ==
    LET gd == GlobalDates(df)
        keys == {r.rows[i].IndustryKey : i \in 1..Len(r.rows)}
    IN \A k \in keys :
          LET own == SubSeqAt(df, {i \in 1..Len(df) :
                                     k \in JoinedKeysOf(master, df[i].Ticker, lvl)})
              alone == compute_industry_feature_frame(own, master, BenchNone, lvl, gd)
          IN /\ \A n \in 1..Len(gd) :
                   /\ Cardinality(RowsAt(r.rows, k, gd[n])) = 1
                   /\ GridRow(r.rows, k, gd, n).IndustryClose
                        = FracMul(CloseBefore(r.rows, k, gd, n),
                                  FracAdd(<<1, 1>>, GridRow(r.rows, k, gd, n).IndustryReturn))
             /\ ~alone.raised
             /\ \A n \in 1..Len(gd) :
                   LET a == GridRow(alone.rows, k, gd, n)
                       b == GridRow(r.rows, k, gd, n)
                   IN /\ a.IndustryClose = b.IndustryClose
                      /\ a.IndustryReturn = b.IndustryReturn
                      /\ a.ConstituentCount = b.ConstituentCount

\* on a grid date on which no constituent of the key has a daily return the
\* return is 0, the close is carried over and, if counted, the count is 0
QuietDates(r, df, master, lvl, counted) ==
    LET gd == GlobalDates(df)
    IN \A i \in 1..Len(r.rows), n \in 1..Len(gd) :
          (r.rows[i].Date = gd[n]
             /\ Contributors(df, master, r.rows[i].IndustryKey, lvl, gd[n]) = {})
          => /\ r.rows[i].IndustryReturn = <<0, 1>>
             /\ r.rows[i].IndustryClose = CloseBefore(r.rows, r.rows[i].IndustryKey, gd, n)
             /\ counted => r.rows[i].ConstituentCount = 0

\* C25: for every key, IndustryClose is 100 x (1 + IndustryReturn) on the
\* first date of the global grid and the previous grid date's IndustryClose
\* x (1 + IndustryReturn) on each later one; on a grid date with no
\* contributing constituent IndustryReturn is 0, ConstituentCount is 0 and
\* IndustryClose is the previous grid date's value; the rows of a key do not
\* depend on the records of the other keys.
C25_CloseCompoundsOverTheGrid ==
    ret.done =>
        \A lvl \in SupportedLevels :
            ~ret.val[lvl].raised =>
                /\ Compounds(ret.val[lvl], arg.feature_df, arg.master, lvl)
                /\ QuietDates(ret.val[lvl], arg.feature_df, arg.master, lvl, TRUE)

\* the same statement without the count of the quiet dates
C25_CompoundingAndCarryOver ==
    ret.done =>
        \A lvl \in SupportedLevels :
            ~ret.val[lvl].raised =>
                /\ Compounds(ret.val[lvl], arg.feature_df, arg.master, lvl)
                /\ QuietDates(ret.val[lvl], arg.feature_df, arg.master, lvl, FALSE)

\* the whole statement for the taxonomy masters that list no Code twice
C25_HoldsForUniqueCodes ==
    (ret.done /\ \A a, b \in 1..Len(arg.master) :
                    arg.master[a].Code = arg.master[b].Code => a = b)
        => C25_CloseCompoundsOverTheGrid

----------------------------------------------------------------------------
(* Claims about run_cache_build, checked under Spec *)

Tasks == 1..Len(feed)

AfterBarrier == {"concat", "rank", "save", "industry", "industry_save",
                 "industry_meta", "meta", "returned"}

\* C1: a run of run_cache_build that ends by raising, whatever the stage that
\* failed, has written neither the panel parquet nor the industry parquet.
C1_RaisingRunLeavesNoParquet ==
    pc = "raised" => ~files.panel /\ ~files.industry

\* C2: once the task of any instrument of the universe has raised, the run is
\* on its way to raising or has raised with a TickerProcessingError, in
\* sequential and in parallel mode; it never passes the collection barrier,
\* never writes a panel and never reports success, and a panel that is
\* assembled holds every instrument of the universe.
C2_AnyTaskFailureAbortsTheRun ==
    /\ (\E i \in Tasks : TaskFailed(i)) =>
          /\ pc \in {"submit", "collect", "cancel", "shutdown", "raised", "exit"}
          /\ pc \in {"raised", "exit"} => error.kind = "TickerProcessingError"
          /\ ~files.panel
          /\ files.meta.run_status # "success"
    /\ pc \in (AfterBarrier \ {"concat"}) =>
          {full_df[k].Ticker : k \in 1..Len(full_df)} = {tickers[i] : i \in 1..N}

C2_Witness ==
    /\ pc = "raised"
    /\ cfg.max_workers > 1
    /\ error.kind = "TickerProcessingError"
    /\ frames # << >>
    /\ \E i \in Tasks : TaskFailed(i)

\* C3: the TickerProcessingError that run_cache_build raises names the
\* instrument of the first failed task the orchestrator came to observe: the
\* task of that instrument did fail, every task observed before it had
\* succeeded, and the error carries the stage label of the per-instrument step.
C3_ErrorNamesFirstObservedFailure ==
    error.kind = "TickerProcessingError" =>
        /\ observed # << >>
        /\ LET last == observed[Len(observed)]
           IN /\ error.ticker = tickers[last]
              /\ TaskFailed(last)
              /\ error.message = ResultOf(last).msg
              /\ \A n \in 1..(Len(observed) - 1) :
                    feed[observed[n]].read /\ ~TaskFailed(observed[n])
        /\ error.stage = STAGE_FETCH

C3_Witness ==
    /\ pc = "raised"
    /\ cfg.max_workers > 1
    /\ error.kind = "TickerProcessingError"
    /\ Len(observed) >= 2
    /\ \E j \in Tasks : /\ TaskFailed(j)
                        /\ \A n \in 1..Len(observed) : observed[n] # j

\* the panel as a function of the universe and the feed data alone: the rows of
\* every instrument's frame, in increasing (Date, Ticker)
PanelKey(r) == r.Date * (1 + MaxUniverse + MANSFIELD_BENCHMARK_TICKER) + r.Ticker

ExpectedRows ==
    UNION {{ResultOf(i).rows[k] : k \in 1..Len(ResultOf(i).rows)} : i \in Tasks}

ExpectedPanel ==
    LET keys == SetToSortedSeq({PanelKey(r) : r \in ExpectedRows})
    IN << >> \o [n \in 1..Len(keys) |->
          LET r == CHOOSE x \in ExpectedRows : PanelKey(x) = keys[n]
          IN [Date |-> r.Date, Ticker |-> r.Ticker, Close |-> r.Close,
              raw |-> r.raw, idx |-> 0]]

RawColumns(df) ==
    [n \in 1..Len(df) |-> [Date |-> df[n].Date, Ticker |-> df[n].Ticker,
                           Close |-> df[n].Close, raw |-> df[n].raw]]

RankedColumns(df) ==
    [n \in 1..Len(df) |-> [Date |-> df[n].Date, Ticker |-> df[n].Ticker,
                           Close |-> df[n].Close, MRS |-> df[n].MRS]]

RawColumnOf == [MRS_1M |-> "MRS_1M_raw", MRS_3M |-> "MRS_3M_raw",
                MRS_6M |-> "MRS_6M_raw", MRS_12M |-> "MRS_12M_raw"]

\* the percentile of row i's raw value of horizon h among the rows of its
\* Level, ranked per Date by the rule of the instrument panel
IndustryPercentile(rows, i, h) ==
    LET level == {j \in 1..Len(rows) : rows[j].Level = rows[i].Level}
        at == SubSeqAt(rows, level)
        df == << >> \o [n \in 1..Len(at) |->
                 [Date |-> at[n].Date, raw |-> at[n][RawColumnOf[h]]]]
    IN PercentileOf(df, Cardinality({j \in level : j <= i}))

\* C11: the industry table that is written carries, for each horizon, a column
\* MRS_<horizon> holding the percentile rank of the key's raw value among the
\* keys of its Level on that Date (average rank for ties, missing excluded, 2
\* decimals), and no raw ratio column.
C11_IndustryMrsArePercentiles ==
    (pc # "idle" /\ files.industry) =>
        \A i \in 1..Len(industry_df) : \A h \in DOMAIN RawColumnOf :
            /\ h \in DOMAIN industry_df[i]
            /\ RawColumnOf[h] \notin DOMAIN industry_df[i]
            /\ industry_df[i][h] = IndustryPercentile(industry_df, i, h)

----------------------------------------------------------------------------
(* Claims about compute_features, checked under SpecFeatures *)

FeaturesReturned == arg.fn = "features" /\ ret.done /\ ~ret.val.raised

\* the rows come back in strictly increasing date order and are the records
\* that went in
InDateOrder(rows, given) ==
    /\ \A i \in 1..(Len(rows) - 1) : rows[i].Date < rows[i + 1].Date
    /\ {rows[i] : i \in 1..Len(rows)} = {given[i] : i \in 1..Len(given)}
    /\ Len(rows) = Len(given)

\* the sum of Close over rows lo..hi, added up by halves
RECURSIVE CloseSum(_, _, _)
CloseSum(rows, lo, hi) ==
    IF lo > hi THEN 0
    ELSE IF lo = hi THEN rows[lo].Close
    ELSE LET mid == (lo + hi) \div 2
         IN CloseSum(rows, lo, mid) + CloseSum(rows, mid + 1, hi)

\* C13: on a series of L records each SMA_w is missing on the first w-1 rows
\* in date order and is the mean of the w most recent Close values on each of
\* the other L-w+1 rows; a window longer than the series is missing everywhere.
C13_SmaOnFullWindowsOnly ==
    FeaturesReturned =>
        LET out == ret.val
            rows == out.rows
        IN /\ InDateOrder(rows, arg.ohlcv_df)
           /\ \A n \in 1..Len(MA_WINDOWS) : \A i \in 1..Len(rows) :
                 LET w == MA_WINDOWS[n]
                 IN IF i < w THEN out.SMA[n][i] = NA
                    ELSE out.SMA[n][i] = Some(Frac(CloseSum(rows, i - w + 1, i), w))

\* a series handed over in reverse date order, longer than the longest window
C13_Witness ==
    /\ FeaturesReturned
    /\ Len(arg.ohlcv_df) > 200
    /\ arg.ohlcv_df[1].Date > arg.ohlcv_df[2].Date
    /\ ret.val.SMA[6][1] = NA
    /\ ret.val.SMA[6][Len(ret.val.rows)] # NA
    /\ ret.val.SMA[1][4] = NA /\ ret.val.SMA[1][5] # NA

\* the volume windows the tests of compute_features name
TestedVolumeWindows == {20, 50}

\* C14: compute_features adds a column VMA_w for each volume window w (20 and
\* 50 among them), the trailing mean of the w most recent Volume values,
\* present on exactly the last L-w+1 rows of a series of L >= w records.
C14_VolumeAveragesAdded ==
    FeaturesReturned =>
        \A w \in TestedVolumeWindows :
            /\ <<"VMA", w>> \in ret.val.names
            /\ \A i \in 1..Len(ret.val.rows) : (ret.val.VMA[w][i] = NA) = (i < w)

\* C15: without a benchmark (None, or an empty series) MansfieldRS and every
\* MRS_<horizon>_raw are the missing marker on every row, never a number.
C15_NoBenchmarkGivesMissing ==
    (FeaturesReturned /\ (~arg.benchmark.given \/ arg.benchmark.series = << >>)) =>
        \A i \in 1..Len(ret.val.rows) :
            /\ ret.val.MansfieldRS[i] = NA
            /\ \A h \in DOMAIN MRS_WINDOWS : ret.val.MRS_raw[h][i] = NA

\* an empty benchmark series on a series long enough for every window
C15_Witness ==
    /\ FeaturesReturned
    /\ arg.benchmark.given /\ arg.benchmark.series = << >>
    /\ Len(ret.val.rows) > 250
    /\ ret.val.MRS_raw["MRS_12M"][Len(ret.val.rows)] = NA

\* the entry of the series observed last for date d
LastObserved(entries, d) ==
    LET at == {i \in 1..Len(entries) : entries[i].Date = d}
    IN entries[CHOOSE i \in at : \A j \in at : j <= i].Close

\* Close / benchmark of row i against the entry observed last for its date
RatioToLast(rows, entries, i) == Frac(rows[i].Close, LastObserved(entries, rows[i].Date))

\* the sum of those ratios over rows lo..hi, added pairwise by halves
RECURSIVE SumOfRatios(_, _, _, _)
SumOfRatios(rows, entries, lo, hi) ==
    IF lo = hi THEN RatioToLast(rows, entries, lo)
    ELSE LET mid == (lo + hi) \div 2
         IN FracAdd(SumOfRatios(rows, entries, lo, mid),
                    SumOfRatios(rows, entries, mid + 1, hi))

\* the mean of the ratios of the w rows that end at row i
MeanOfRatios(rows, entries, i, w) ==
    LET t == SumOfRatios(rows, entries, i - w + 1, i) IN Frac(t[1], t[2] * w)

\* C26: with a benchmark series that has several entries for a date,
\* compute_features succeeds, and the Close/benchmark ratio of each date is
\* taken against the entry observed last for it: from the 21st row on,
\* MRS_1M_raw is (ratio / mean of the last 21 ratios - 1) x 100 with those
\* ratios, and it is missing before.
C26_RepeatedBenchmarkDateUsesLastEntry ==
    (arg.fn = "features_entries" /\ ret.done) =>
        /\ ~ret.val.raised
        /\ Len(ret.val.rows) = Len(arg.ohlcv_df)
        /\ \A i \in 1..Len(ret.val.rows) :
              LET rows == ret.val.rows
                  w == MRS_WINDOWS.MRS_1M
              IN ret.val.MRS_raw.MRS_1M[i] =
                    IF i < w THEN NA
                    ELSE Some(FracMul(FracAdd(FracDiv(RatioToLast(rows, arg.entries, i),
                                                      MeanOfRatios(rows, arg.entries, i, w)),
                                              <<-1, 1>>),
                                      <<100, 1>>))

\* a constant Close of 7 over 21 dates against the flat benchmark 100 that
\* ends with a second entry, 50, for the last date: the last ratio is 7/50
\* against a mean of 1.54/21, which gives 1000/11
C26_Witness ==
    /\ arg.fn = "features_entries" /\ ret.done
    /\ Len(arg.entries) = 22
    /\ arg.entries[21] = BenchEntry(21, 100)
    /\ arg.entries[22] = BenchEntry(21, 50)
    /\ \A i \in 1..Len(arg.ohlcv_df) : arg.ohlcv_df[i].Close = 7
    /\ ret.val.MRS_raw.MRS_1M[21] = Some(<<1000, 11>>)

\* C16: IsNewHigh1Y is true on a row exactly when 252 records exist up to and
\* including it and its Close is the largest of those 252; before that it is
\* not true.
C16_NewHighOnFullYearMaximum ==
    FeaturesReturned =>
        LET rows == ret.val.rows
        IN /\ InDateOrder(rows, arg.ohlcv_df)
           /\ \A i \in 1..Len(rows) :
                 ret.val.IsNewHigh1Y[i] =
                    (/\ i >= 252
                     /\ \A j \in (i - 251)..i : rows[j].Close <= rows[i].Close)

\* a row that is a new high with the window full, and an earlier row that is
\* the highest so far while the window is still short
C16_Witness ==
    /\ FeaturesReturned
    /\ Len(ret.val.rows) >= 253
    /\ \E i \in 252..Len(ret.val.rows) : ret.val.IsNewHigh1Y[i]
    /\ \E i \in 1..251 : /\ ~ret.val.IsNewHigh1Y[i]
                         /\ \A j \in 1..i : ret.val.rows[j].Close <= ret.val.rows[i].Close

\* C17: the assembled panel holds at most one row per (Ticker, Date), whatever
\* universe list and raw series the feed returned, a raw series that repeats a
\* date included.
C17_OneRowPerInstrumentAndDate ==
    pc # "idle" =>
        \A i, j \in 1..Len(full_df) :
            (full_df[i].Ticker = full_df[j].Ticker /\ full_df[i].Date = full_df[j].Date)
                => i = j

\* a panel assembled from a raw series that repeated a date, next to another
\* instrument's rows
C17_Witness ==
    /\ pc = "rank"
    /\ \E i \in Tasks : /\ feed[i].read
                        /\ ~feed[i].raises
                        /\ \E a, b \in 1..Len(feed[i].rows) :
                              a # b /\ feed[i].rows[a].Date = feed[i].rows[b].Date
    /\ Len(full_df) >= 3

\* a per-instrument task has been dispatched: fetch_one was called for it or
\* it was submitted to the pool
Dispatched ==
    \/ \E i \in DOMAIN feed : feed[i].read
    \/ \E i \in DOMAIN future : future[i] # "unsubmitted"

\* the series is the Close by Date of a standardized answer of the feed for
\* the benchmark instrument, and is not empty
BenchmarkBuilt ==
    /\ DOMAIN benchmark_close # {}
    /\ \E b \in BenchmarkCatalog :
          /\ ~b.raises
          /\ ~standardize_ohlcv(b.rows, MANSFIELD_BENCHMARK_TICKER).raised
          /\ benchmark_close
                = BenchmarkSeries(standardize_ohlcv(b.rows, MANSFIELD_BENCHMARK_TICKER).rows)

\* C19: every step that leaves a per-instrument task dispatched (the step that
\* dispatches the first one included, and every step after it until the run
\* ends) starts with the benchmark series fully built and leaves it unchanged.
C19_BenchmarkFrozenFromFirstDispatch ==
    [][Dispatched' => (BenchmarkBuilt /\ benchmark_close' = benchmark_close)]_vars

\* one task has computed its features against a two-date benchmark while
\* another is still running
C19_Witness ==
    /\ pc # "idle"
    /\ \E i \in DOMAIN feed : feed[i].read
    /\ \E i \in DOMAIN future : future[i] = "running"
    /\ BenchmarkBuilt
    /\ Cardinality(DOMAIN benchmark_close) = 2

\* C20: when cross-sectional normalization starts, and ever after, the result
\* of the task of every instrument of the universe has been collected and was
\* a success: no task is still queued or running, and the population that is
\* ranked holds the frame of every instrument.
C20_RankingWaitsForEveryTask ==
    (pc \in AfterBarrier) =>
        /\ \A i \in 1..N :
              /\ feed[i].read
              /\ ~ResultOf(i).raised
              /\ future[i] \notin {"pending", "running"}
              /\ \E n \in 1..Len(observed) : observed[n] = i
        /\ Len(frames) = N
        /\ pc # "concat" =>
              Len(full_df) = SumSet(1..Len(frames), [n \in 1..Len(frames) |-> Len(frames[n])])

\* a parallel run of three instruments at the start of the ranking pass, the
\* results having come in another order than the tasks were submitted
C20_Witness ==
    /\ pc = "rank"
    /\ cfg.max_workers > 1
    /\ N = 3
    /\ \E n \in 1..(Len(observed) - 1) : observed[n] > observed[n + 1]

\* the run was parallel and its error has reached the caller
FailureReachedCaller ==
    /\ pc \in {"raised", "exit"}
    /\ cfg.max_workers > 1
    /\ error.kind = "TickerProcessingError"

Settled == {"ok", "failed", "cancelled"}

\* C21: in parallel mode, a step that hands the failure to the caller of
\* run_cache_build (and every step after it) leaves every dispatched task
\* settled: finished, failed or cancelled, none queued and none running; and
\* no step ever takes a cancelled task out of the cancelled state.
C21_RaisesAfterEveryTaskSettled ==
    [][/\ FailureReachedCaller' =>
             /\ DOMAIN future' = 1..Len(tickers')
             /\ \A i \in DOMAIN future' : future'[i] \in Settled
       /\ \A i \in DOMAIN future :
             future[i] = "cancelled" => (i \in DOMAIN future' /\ future'[i] = "cancelled")]_vars

\* the failure has reached the caller of a run of three instruments: one
\* task failed, one that was running when the failure was observed finished
\* afterwards, and one was cancelled before it started
C21_Witness ==
    /\ FailureReachedCaller
    /\ N = 3
    /\ \E i, j, k \in 1..N :
          /\ future[i] = "failed"
          /\ future[j] = "cancelled"
          /\ future[k] = "ok"
          /\ \A n \in 1..Len(observed) : observed[n] # k

\* the tasks a pool thread is executing
Executing == {i \in DOMAIN future : future[i] = "running"}

\* C22: at most max_workers tasks are executing at any moment; with
\* max_workers = 1 no task is ever handed to a pool, the instruments fetched
\* so far are the first ones of the universe, fetched in universe order, and
\* an instrument whose fetch failed is the last one fetched: the run has
\* raised and every later instrument is left unfetched.
C22_AtMostMaxWorkersExecuting ==
    /\ Cardinality(Executing) <= cfg.max_workers
    /\ (cfg.max_workers = 1 /\ feed # << >>) =>
          /\ \A i \in DOMAIN future : future[i] = "unsubmitted"
          /\ observed = [n \in 1..Len(observed) |-> n]
          /\ \A i \in 1..N : feed[i].read <=> i <= Len(observed)
          /\ \A i \in 1..N :
                TaskFailed(i) => /\ i = Len(observed)
                                 /\ pc \in {"raised", "exit"}
                                 /\ \A j \in (i + 1)..N : ~feed[j].read

\* a pool of two threads is full while a third task waits in the queue
C22_Witness ==
    /\ cfg.max_workers = 2
    /\ Cardinality(Executing) = 2
    /\ \E i \in DOMAIN future : future[i] = "pending"

\* a sequential run of three instruments has raised at the second one
C22_SequentialStopsAtFailure ==
    /\ cfg.max_workers = 1
    /\ pc = "raised"
    /\ N = 3
    /\ Len(observed) = 2
    /\ TaskFailed(2)
    /\ ~feed[3].read

----------------------------------------------------------------------------
(* Claims about KISAuth.fetch_api, checked under SpecFetchApi and
   SpecFetchApiLive *)

\* a response that reports the per-second limit: msg_cd EGW00201 or the
\* limit phrase, under HTTP 200 or any other status
RateLimited(res) == ~res.raises /\ (res.msg_cd = "EGW00201" \/ res.phrase)

SuccessResponse(res) == ~res.raises /\ res.status_code = 200 /\ res.rt_cd = "0"

\* a response that is neither a success nor a rate-limit error
OtherError(res) == ~res.raises /\ ~SuccessResponse(res) /\ ~RateLimited(res)

\* a response after which the call may try again
Transient(res) == res.raises \/ (RateLimited(res) /\ ~SuccessResponse(res))

RaisedRuntimeError == ret.done /\ ret.val.raised /\ ret.val.exc = "RuntimeError"

\* C27: a response that is neither a success nor a rate-limit error is the
\* last response of the call: with it fetch_api has raised RuntimeError, no
\* backoff sleep follows it and no request follows it, whatever max_retries.
C27_OtherErrorRaisesAtOnce ==
    arg.fn = "fetch_api" =>
        \A n \in 1..Len(requests) :
            OtherError(requests[n]) =>
                /\ n = Len(requests)
                /\ pc = "raised"
                /\ RaisedRuntimeError
                /\ ret.val.msg \in {"API error", "HTTP error"}
                /\ Len(sleeps) = n - 1

\* with max_retries 2: a rate-limited response, one backoff sleep, then
\* HTTP 500 with msg_cd E_OTHER
C27_Witness ==
    /\ arg.fn = "fetch_api" /\ arg.max_retries = 2
    /\ Len(requests) = 2
    /\ RateLimited(requests[1])
    /\ requests[2] = Response(500, "1", "E_OTHER", FALSE)
    /\ sleeps = <<0>>
    /\ pc = "raised"
    /\ ret.val.msg = "HTTP error"

\* what holds of a call of fetch_api at every moment
BoundedRetries ==
    LET limit == arg.max_retries + 1
        made == Len(requests)
    IN /\ made <= limit \/ made = 0
       \* every response but the last was transient and was followed by exactly
       \* one backoff sleep before the next request
       /\ \A n \in 1..(made - 1) : Transient(requests[n])
       /\ Len(sleeps) <= made
       /\ \A n \in 1..Len(sleeps) : sleeps[n] = n - 1 /\ Transient(requests[n])
       /\ pc = "attempt" => Len(sleeps) = made /\ attempt = made
       /\ Len(sleeps) >= made - 1
       \* the first success is returned
       /\ (made >= 1 /\ SuccessResponse(requests[made])) =>
             /\ pc = "returned"
             /\ ret = Returned(ApiReturned(requests[made]))
             /\ Len(sleeps) = made - 1
       /\ pc = "returned" => made >= 1 /\ SuccessResponse(requests[made])
       \* max_retries + 1 transient responses: no sleep after the last, and the
       \* call raises RuntimeError
       /\ (made = limit /\ made >= 1 /\ Transient(requests[made])) =>
             /\ pc \in {"exhausted", "raised"}
             /\ Len(sleeps) = made - 1
             /\ pc = "raised" =>
                   /\ RaisedRuntimeError
                   /\ ret.val.msg = "KIS API request failed after retries"
       /\ (ret.done /\ ret.val.msg = "KIS API request failed after retries") =>
             /\ made = (IF limit > 0 THEN limit ELSE 0)
             /\ \A n \in 1..made : Transient(requests[n])

Terminated == pc \in {"returned", "raised"}

\* C28: a call of fetch_api makes at most max_retries + 1 requests; after
\* each rate-limited or transport-failed response but the last allowed one it
\* sleeps one backoff delay and retries; it returns the first response that
\* is HTTP 200 with rt_cd "0"; it raises RuntimeError once max_retries + 1
\* attempts were all rate-limited or failed in transport; and it terminates.
C28_TerminatesWithinMaxRetries ==
    /\ [](arg.fn = "fetch_api" => BoundedRetries)
    /\ <>Terminated

\* with max_retries 2: HTTP 500 and HTTP 200 both carrying EGW00201, two
\* sleeps, a third rate-limited response, and the RuntimeError after retries
C28_Witness ==
    /\ arg.fn = "fetch_api" /\ arg.max_retries = 2
    /\ Len(requests) = 3
    /\ requests[1] = Response(500, "1", "EGW00201", TRUE)
    /\ requests[2] = Response(200, "1", "EGW00201", TRUE)
    /\ RateLimited(requests[3])
    /\ sleeps = <<0, 1>>
    /\ pc = "raised"
    /\ ret.val.msg = "KIS API request failed after retries"

\* the retry of the tests: a rate-limited response, a sleep, then the success
C28_RetrySucceeds ==
    /\ arg.fn = "fetch_api" /\ arg.max_retries = 2
    /\ Len(requests) = 2
    /\ RateLimited(requests[1])
    /\ sleeps = <<0>>
    /\ pc = "returned"
    /\ ret.val.data = <<Response(200, "0", PyNone, FALSE)>>

----------------------------------------------------------------------------
(* Claims about _RateLimiter.wait, checked under SpecRateLimiter *)

\* C29: with min_interval_seconds > 0, any two consecutive returns from
\* wait(), over all the threads that share the limiter, are at least
\* min_interval_seconds apart.
C29_ReturnsAreSpaced ==
    (arg.fn = "wait" /\ arg._min_interval_seconds > 0) =>
        \A n \in 1..(Len(returned_at) - 1) :
            returned_at[n + 1] - returned_at[n] >= arg._min_interval_seconds

\* what the reservation does give: the slots handed out are
\* min_interval_seconds apart, so after k reservations the next slot is at
\* least k intervals away from the start
C29_SlotsAreSpaced ==
    (arg.fn = "wait" /\ arg._min_interval_seconds > 0) =>
        _next_allowed_at
            >= arg._min_interval_seconds
                 * Cardinality({u \in Threads :
                                   thread[u].pc \in {"unlocked", "sleeping", "returned"}})

----------------------------------------------------------------------------
(* Claims about _split_date_range_into_chunks, checked under SpecChunks *)

ChunkStart(c) == to_datetime(c[1])
ChunkEnd(c) == to_datetime(c[2])

\* the chunk ends no later than max_years after the day it starts
WithinYears(c, max_years) ==
    LET from == c[1]
        to == c[2]
    IN \/ to[1] - from[1] < max_years
       \/ to[1] - from[1] = max_years /\ (to[2] < from[2] \/ (to[2] = from[2] /\ to[3] <= from[3]))

\* ascending chunks that do not overlap, none longer than max_years
WellFormedChunks(cs, max_years) ==
    /\ \A i \in 1..Len(cs) : ChunkStart(cs[i]) <= ChunkEnd(cs[i]) /\ WithinYears(cs[i], max_years)
    /\ \A i \in 1..(Len(cs) - 1) : ChunkStart(cs[i + 1]) > ChunkEnd(cs[i])

Covered(cs, day) == \E i \in 1..Len(cs) : ChunkStart(cs[i]) <= day /\ day <= ChunkEnd(cs[i])

\* C30: for start <= end the chunks returned are in ascending order, do not
\* overlap, each spans at most max_years, and together they cover every
\* calendar day from start to end inclusive.
C30_ChunksCoverTheRange ==
    (arg.fn = "chunks" /\ ret.done) =>
        /\ WellFormedChunks(ret.val, arg.max_years)
        /\ \A day \in to_datetime(arg.start_date)..to_datetime(arg.end_date) :
              Covered(ret.val, day)

\* what the loop does give: well-formed chunks that start at start, leave no
\* gap and cover every day before end; end itself is covered unless the
\* range is a single day or the chunk before it ends on the eve of end
C30_CoversAllButPerhapsTheLastDay ==
    (arg.fn = "chunks" /\ ret.done) =>
        LET start == to_datetime(arg.start_date)
            end == to_datetime(arg.end_date)
        IN /\ WellFormedChunks(ret.val, arg.max_years)
           /\ \A day \in start..(end - 1) : Covered(ret.val, day)
           /\ \A i \in 1..(Len(ret.val) - 1) :
                 ChunkStart(ret.val[i + 1]) = ChunkEnd(ret.val[i]) + 1
           /\ ~Covered(ret.val, end) <=>
                 \/ start = end
                 \/ Len(ret.val) >= 1 /\ ChunkEnd(ret.val[Len(ret.val)]) = end - 1

\* the loop ends: each pass starts before end and moves current_start
\* forward by at least one day, and the call returns as soon as
\* current_start has reached end
C30_EachPassAdvances ==
    [][arg.fn = "chunks" =>
          /\ chunks' # chunks =>
                /\ current_start < to_datetime(arg.end_date)
                /\ current_start' > current_start
                /\ current_start' <= to_datetime(arg.end_date) + 1
          /\ ret'.done => current_start >= to_datetime(arg.end_date)]_vars

----------------------------------------------------------------------------
(* Claims about standardize_ohlcv, checked under SpecStandardize *)

\* C18: every record standardize_ohlcv returns has Close > 0; a raw record
\* with Close <= 0 is never handed on to the panel.
C18_ReturnedCloseIsPositive ==
    (arg.fn = "standardize" /\ ret.done /\ ~ret.val.raised) =>
        \A i \in 1..Len(ret.val.rows) : ret.val.rows[i].Close > 0

====
